---------------------------- MODULE Spec2Model ----------------------------
(***************************************************************************)
(* RFID-Manager: the SM-6210 driver (frame encoders, ingress decoders,     *)
(* scan tick, bank writes), the serial transport it writes to, the RFID    *)
(* tag aggregator (current tag, history, watchdog) and the MainWindow      *)
(* write handlers.                                                         *)
(*                                                                         *)
(* Bytes are the naturals 0..255.  A QByteArray is a sequence of bytes;    *)
(* C++ index i is TLA+ index i + 1.                                        *)
(***************************************************************************)
EXTENDS Integers, Sequences, FiniteSets, TLC

VARIABLES
    connected,           \* RFID_SerialManager: m_currentDevice is set and open
    m_baudRate,          \* RFID_SerialManager::m_baudRate (the open port's rate)
    m_reader,            \* RFID::m_reader is not null
    BUFFER,              \* SM_6210.cpp: static QByteArray BUFFER
    m_selector,          \* SM_6210::m_selector
    m_shitCount,         \* SM_6210::m_shitCount (quint8)
    m_userStartAddress,  \* SM_6210::m_userStartAddress (quint8)
    m_currentTag,        \* RFID_Reader::m_currentTag: a tag object or NULL
    m_tags,              \* RFID::m_tags: the history, a list of tag objects
    heap,                \* the RFID_Tag objects the pointers refer to
    m_watchdog,          \* RFID::m_watchdog: ms until it times out, Inactive if stopped
    startTimer,          \* the constructor's 1000 ms single shots: ms left, Inactive once fired
    messageBox,          \* a modal QMessageBox of a write or of the erase is open
    wire,                \* bytes the reader has sent that the port has not handed over yet
    sinceBankEvent,      \* observer: ms since the last bank event (capped)
    reported,            \* observer: the bank events emitted out of the bytes now in flight
    last                 \* observer: what the last handler was given and did

vars == <<connected, m_baudRate, m_reader, BUFFER, m_selector, m_shitCount,
          m_userStartAddress, m_currentTag, m_tags, heap, m_watchdog,
          startTimer, messageBox, wire, sinceBankEvent, reported, last>>

transportVars == <<connected, m_baudRate>>
driverVars == <<BUFFER, m_selector, m_shitCount, m_userStartAddress>>
tagVars == <<m_currentTag, m_tags, heap>>
timeVars == <<m_watchdog, startTimer, sinceBankEvent>>

-----------------------------------------------------------------------------
(* Program constants                                                       *)

HEADER_START_CODE == 160
HEADER_RESULT_CODE == 228
HEADER_RESPONSE_CODE == 224
COMM_RS232 == 3
DEV_STOP_SEARCH == 168
DEV_WRITE_TAG_MW == 171
DEV_GET_SINGLE_PARAM == 97
DEV_READ_SINGLE_TAG == 130
DEV_READ_TAG_DATA == 128
CRP_ADD_USERCODE == 100

RFU_LABEL == <<0, 0>>
EPC_LABEL == <<0, 1>>
TID_LABEL == <<0, 2>>
USR_LABEL == <<0, 3>>

RFID_RFU_LENGTH == 8
RFID_EPC_LENGTH == 12
RFID_USER_LENGTH == 64
RFID_NUM_USER_DATAGRAMS == 4
RFID_CURRENT_TAG_TIMEOUT == 1000
RFID_MAX_BUFFER_SIZE == 1024 * 16

\* SM_6210::loaded compares the port's rate with this one
LOADED_BAUD_RATE == 9600
\* writeData submits every packet this many times
WRITE_REPEATS == 10
\* scan sends the stop-and-reset command when m_shitCount exceeds this
SHIT_THRESHOLD == 10

NULL == 0
Inactive == 0 - 1

-----------------------------------------------------------------------------
(* Bounds of the model                                                     *)

\* submissions of one operation the port may refuse or cut short
MaxBadWrites == 1
\* characters of a text typed into a write field (longer ones: LongTexts)
MaxHexChars == 2
\* records the history may hold before further growth is cut off
MaxTags == 3
\* slices the watchdog period is cut into
TimeSlices == 1
\* bytes of one readAll() that does not take everything the reader sent
MaxChunk == 2
\* bytes BUFFER may hold when the reader starts another transmission
MaxBacklog == 1
\* unmatched batches counted before further unmatched input is cut off
MaxShitCount == 2

-----------------------------------------------------------------------------
(* Bytes and byte arrays                                                   *)

Min(a, b) == IF a < b THEN a ELSE b
Max(a, b) == IF a > b THEN a ELSE b

\* a char read as the signed char it is on the supported platforms
SignedChar(b) == IF b >= 128 THEN b - 256 ELSE b

\* n copies of byte b
Fill(b, n) == [i \in 1..n |-> b]

\* QByteArray::mid(pos, len): at most len bytes from C++ index pos
Mid(a, pos, len) ==
    IF pos >= Len(a) THEN <<>>
    ELSE SubSeq(a, pos + 1, Min(Len(a), pos + len))

\* QByteArray::remove(pos, len): nothing for len <= 0 or pos past the end
Remove(a, pos, len) ==
    IF len <= 0 \/ pos >= Len(a) THEN a
    ELSE SubSeq(a, 1, pos) \o SubSeq(a, Min(Len(a), pos + len) + 1, Len(a))

\* the quint8 sum of the bytes, by halves
RECURSIVE ByteSum(_)
ByteSum(a) ==
    IF a = <<>> THEN 0
    ELSE IF Len(a) = 1 THEN a[1] % 256
    ELSE LET half == Len(a) \div 2
         IN  (ByteSum(SubSeq(a, 1, half)) + ByteSum(SubSeq(a, half + 1, Len(a)))) % 256

ChecksumNoIncrement(data) == 255 - ByteSum(data)

\* Checksum: the quint8 sum of the bytes, complemented, plus one
Checksum(data) == ((255 - ByteSum(data)) + 1) % 256

\* subsets of S with at most k elements
RECURSIVE SubsetsUpTo(_, _)
SubsetsUpTo(S, k) ==
    IF k = 0 THEN {{}}
    ELSE LET P == SubsetsUpTo(S, k - 1)
         IN  P \cup {p \cup {x} : p \in P, x \in S}

-----------------------------------------------------------------------------
(* Serial transport (RFID_SerialManager)                                   *)

\* How the open port answers a write: in full, one byte short, nothing, error
BadKinds == {"short", "none", "error"}

\* Which submissions of one operation the port answers badly, and how
\* the submissions of an operation that may go badly: any of the first packet's,
\* the first and the last of every packet's after it
PlanPositions(n) == {k \in 1..n : k <= WRITE_REPEATS \/ k % WRITE_REPEATS \in {0, 1}}

\* the port takes every submission in full
FullPlan == [bad |-> {}, kind |-> "full"]

WritePlans(n) ==
    {[bad |-> b, kind |-> k] :
        b \in SubsetsUpTo(PlanPositions(n), MaxBadWrites) \ {{}}, k \in BadKinds}
        \cup {FullPlan}

\* QSerialPort::write on the open port, for submission k of the operation
PortWrite(data, k, plan) ==
    IF k \in plan.bad
    THEN CASE plan.kind = "short" -> Len(data) - 1
           [] plan.kind = "none" -> 0
           [] OTHER -> 0 - 1
    ELSE Len(data)

\* RFID_SerialManager::writeData: the bytes the port took, -1 when not connected
SerialManager_writeData(data, k, plan) ==
    IF connected THEN PortWrite(data, k, plan) ELSE 0 - 1

\* one submission to the transport, as the observer records it
Submission(data, k, plan) ==
    [frame |-> data, accepted |-> SerialManager_writeData(data, k, plan)]

\* RFID_SerialManager::baudRate
baudRate == IF connected THEN m_baudRate ELSE 0

-----------------------------------------------------------------------------
(* SM-6210 request frames                                                  *)

WithChecksum(data) == Append(data, Checksum(data))

\* scan: the stop-and-reset command
StopSearchPacket ==
    WithChecksum(<<HEADER_START_CODE, COMM_RS232, DEV_STOP_SEARCH, 0>>)

\* scan: the tag read request command
GetSingleParamPacket ==
    WithChecksum(<<HEADER_START_CODE, 5, DEV_GET_SINGLE_PARAM, 0, 0, CRP_ADD_USERCODE>>)

\* readEpc / readTid / readRfu / readUsr: a bank read request
ReadPacket(label, startAddress, dataLength) ==
    WithChecksum(<<HEADER_START_CODE, 6, DEV_READ_TAG_DATA, label[1], label[2],
                   startAddress, dataLength>>)

\* readAckPacket: the answer to the reader's acknowledge
AckResponsePacket ==
    WithChecksum(<<HEADER_START_CODE, COMM_RS232, DEV_READ_SINGLE_TAG, 0>>)

\* writeData: the packet, its length byte inserted at index 1 once the data is in
WritePacket(data, label, startAddress, length) ==
    LET packet == <<HEADER_START_CODE, DEV_WRITE_TAG_MW, label[1], label[2],
                    startAddress, length>> \o data
        sized == <<packet[1], Len(packet) % 256>> \o Tail(packet)
    IN  WithChecksum(sized)

-----------------------------------------------------------------------------
(* SM-6210 driver: loaded, bank writes, erase                              *)

\* loaded at whatever rate the port is open
loadedAtAnyRate == connected

\* SM_6210::loaded
loaded == IF connected THEN baudRate = LOADED_BAUD_RATE ELSE FALSE

NoWrite == [sent |-> <<>>, ok |-> FALSE]

\* writeData giving up at the first submission the port does not take in full
writeDataStopAtFailure(data, label, startAddress, length, base, plan) ==
    LET packet == WritePacket(data, label, startAddress, length)
        subs == [i \in 1..WRITE_REPEATS |-> Submission(packet, base + i, plan)]
        failed == {i \in 1..WRITE_REPEATS : subs[i].accepted # Len(packet)}
        stop == IF failed = {} THEN WRITE_REPEATS
                ELSE CHOOSE i \in failed : \A j \in failed : i <= j
    IN  [sent |-> SubSeq(subs, 1, stop), ok |-> failed = {}]

\* SM_6210::writeData; base submissions of the operation came before
writeData(data, label, startAddress, length, base, plan) ==
    LET packet == WritePacket(data, label, startAddress, length)
        subs == [i \in 1..WRITE_REPEATS |-> Submission(packet, base + i, plan)]
    IN  [sent |-> subs,
         ok |-> \A i \in 1..WRITE_REPEATS : subs[i].accepted = Len(packet)]

\* a write of the EPC bank that does not ask for a current tag
writeEpcWithoutTag(epc, base, plan) == writeData(epc, EPC_LABEL, 2, 6, base, plan)

\* SM_6210::writeEpc
writeEpc(epc, base, plan) ==
    IF m_currentTag # NULL THEN writeData(epc, EPC_LABEL, 2, 6, base, plan)
    ELSE NoWrite

\* SM_6210::writeRfu
writeRfu(rfu, base, plan) ==
    IF m_currentTag # NULL THEN writeData(rfu, RFU_LABEL, 0, 4, base, plan)
    ELSE NoWrite

\* the (position, length) pairs SM_6210::writeUserData hands to QByteArray::mid
UserSegments == <<<<0, 16>>, <<16, 32>>, <<32, 48>>, <<48, 64>>>>

\* SM_6210::writeUserData
writeUserData(userData, base, plan) ==
    IF m_currentTag # NULL THEN
        LET seg(n) == writeData(Mid(userData, UserSegments[n][1], UserSegments[n][2]),
                                USR_LABEL, 8 * (n - 1), 8,
                                base + WRITE_REPEATS * (n - 1), plan)
        IN  [sent |-> seg(1).sent \o seg(2).sent \o seg(3).sent \o seg(4).sent,
             ok |-> seg(1).ok /\ seg(2).ok /\ seg(3).ok /\ seg(4).ok]
    ELSE NoWrite

\* the sizes of the zero-filled arrays SM_6210::eraseTag builds
ERASE_EPC_BYTES == 12
ERASE_USR_BYTES == 13
ERASE_RFU_BYTES == 8

\* eraseTag with all three writes made whatever the earlier ones returned
eraseTagAllThree(plan) ==
    LET e == writeEpc(Fill(0, ERASE_EPC_BYTES), 0, plan)
        r == writeRfu(Fill(0, ERASE_RFU_BYTES), Len(e.sent), plan)
        u == writeUserData(Fill(0, ERASE_USR_BYTES), Len(e.sent) + Len(r.sent), plan)
    IN  [sent |-> e.sent \o r.sent \o u.sent, ok |-> e.ok /\ r.ok /\ u.ok]

\* SM_6210::eraseTag: writeEpc(epc) && writeRfu(rfu) && writeUserData(usr)
eraseTag(plan) ==
    LET e == writeEpc(Fill(0, ERASE_EPC_BYTES), 0, plan)
        r == writeRfu(Fill(0, ERASE_RFU_BYTES), Len(e.sent), plan)
        u == writeUserData(Fill(0, ERASE_USR_BYTES), Len(e.sent) + Len(r.sent), plan)
    IN  IF ~e.ok THEN [sent |-> e.sent, ok |-> FALSE]
        ELSE IF ~r.ok THEN [sent |-> e.sent \o r.sent, ok |-> FALSE]
        ELSE [sent |-> e.sent \o r.sent \o u.sent, ok |-> u.ok]

\* killTag succeeding whenever a tag is current
killTagIfCurrent == m_currentTag # NULL

\* SM_6210::killTag: return false
killTag == FALSE

\* SM_6210::lockTag: return false
lockTag == FALSE

-----------------------------------------------------------------------------
(* RFID_Tag objects                                                        *)

UsrField(datagram) ==
    CASE datagram = 0 -> "usr0" [] datagram = 1 -> "usr1"
      [] datagram = 2 -> "usr2" [] OTHER -> "usr3"

\* the fields in the order updateTagList copies them
TagFields == <<"epc", "tid", "rfu", "usr0", "usr1", "usr2", "usr3">>
FieldNames == {TagFields[i] : i \in 1..Len(TagFields)}

\* new RFID_Tag: every QByteArray empty
EmptyTag == [f \in FieldNames |-> <<>>]

\* addresses a tag object can have: the history's, the current tag's, a new one's
TagIds == 1..(MaxTags + 2)

SeqRange(q) == {q[i] : i \in 1..Len(q)}

\* the objects the aggregator or the driver still points to
Referenced(cur, tags) == SeqRange(tags) \cup ({cur} \ {NULL})

\* new: an address nothing points to
NewTagId(cur, tags) ==
    CHOOSE id \in TagIds \ Referenced(cur, tags) :
        \A other \in TagIds \ Referenced(cur, tags) : id <= other

\* objects nothing points to any more (freed or leaked) are not kept
Collect(cur, tags, h) ==
    [id \in TagIds |-> IF id \in Referenced(cur, tags) THEN h[id] ELSE EmptyTag]

\* An address says nothing but which pointers are equal, so after every step
\* the objects are put at the addresses their place in the history gives them:
\* a record at the first index it is listed at, a current tag that is not in
\* the history behind the last record
Placed(cur, tags, h) ==
    LET n == Len(tags)
        first(id) == CHOOSE i \in 1..n : tags[i] = id /\ \A k \in 1..(i - 1) : tags[k] # id
        place == [id \in TagIds |-> IF \E i \in 1..n : tags[i] = id THEN first(id) ELSE n + 1]
        at == [k \in TagIds |->
                 IF k <= n THEN (IF place[tags[k]] = k THEN tags[k] ELSE NULL)
                 ELSE IF k = n + 1 /\ cur # NULL /\ place[cur] = k THEN cur
                 ELSE NULL]
    IN  [cur |-> IF cur = NULL THEN NULL ELSE place[cur],
         tags |-> [i \in 1..n |-> place[tags[i]]],
         heap |-> [k \in TagIds |-> IF at[k] = NULL THEN EmptyTag ELSE h[at[k]]]]

-----------------------------------------------------------------------------
(* RFID: the tag aggregator.  A handler's effect is threaded through a      *)
(* record: cur = reader()->currentTag(), tags = m_tags, heap, wd = the      *)
(* watchdog was restarted, sig = the signals emitted.                      *)

AggState == [cur |-> m_currentTag, tags |-> m_tags, heap |-> heap,
             wd |-> FALSE, sig |-> {}]

\* RFID::updateTagData on field f of object id
updateTagData(a, id, f, src) ==
    IF src # <<>> /\ a.heap[id][f] # src
    THEN [a EXCEPT !.heap[id][f] = src, !.sig = @ \cup {"tagUpdated"}]
    ELSE a

\* updateTagList, the lookup: the first history index whose epc or tid equals tag's
MatchesTag(h, t, tag) == h[t].epc = h[tag].epc \/ h[t].tid = h[tag].tid

FirstMatch(a, tag) ==
    LET hits == {i \in 1..Len(a.tags) : MatchesTag(a.heap, a.tags[i], tag)}
    IN  IF hits = {} THEN 0 ELSE CHOOSE i \in hits : \A k \in hits : i <= k

\* the copy of every field of tag into the history entry t, empty ones too
CopyFieldsEmptyToo(a, t, tag) ==
    IF a.heap[t] = a.heap[tag] THEN a
    ELSE [a EXCEPT !.heap[t] = a.heap[tag], !.sig = @ \cup {"tagUpdated"}]

\* updateTagList, the copy of tag's fields into the history entry t: one
\* updateTagData for every field, each of which changes its own field only
CopyFields(a, t, tag) ==
    LET src == a.heap[tag]
        dest == a.heap[t]
        changed == {f \in FieldNames : src[f] # <<>> /\ dest[f] # src[f]}
    IN  IF changed = {} THEN a
        ELSE [a EXCEPT !.heap[t] = [f \in FieldNames |->
                                      IF f \in changed THEN src[f] ELSE dest[f]],
                       !.sig = @ \cup {"tagUpdated"}]

RemoveAt(q, k) == SubSeq(q, 1, k - 1) \o SubSeq(q, k + 1, Len(q))

\* updateTagList, the test that removes m_tags.at(j) during the cleanup
IsDuplicate(h, ta, tb) == ta = tb \/ h[ta].tid = h[tb].tid

\* updateTagList, the cleanup loops: i and j are the C++ indices
RECURSIVE Cleanup(_, _, _, _)
Cleanup(h, tags, i, j) ==
    IF i >= Len(tags) THEN tags
    ELSE IF j >= Len(tags) THEN Cleanup(h, tags, i + 1, i + 2)
    ELSE IF IsDuplicate(h, tags[i + 1], tags[j + 1])
         THEN Cleanup(h, RemoveAt(tags, j + 1), i, j + 1)
         ELSE Cleanup(h, tags, i, j + 1)

\* RFID::updateTagList
updateTagList(a0, tag) ==
    LET a1 == [a0 EXCEPT !.wd = TRUE]
        found == FirstMatch(a1, tag)
        a2 == IF found # 0 THEN CopyFields(a1, a1.tags[found], tag)
              ELSE [a1 EXCEPT !.tags = Append(@, tag),
                              !.sig = @ \cup {"tagCountChanged"}]
        swept == Cleanup(a2.heap, a2.tags, 0, 1)
        a3 == IF swept # a2.tags
              THEN [a2 EXCEPT !.tags = swept, !.sig = @ \cup {"tagCountChanged"}]
              ELSE a2
    IN  IF a3.cur # tag
        THEN [a3 EXCEPT !.cur = tag, !.sig = @ \cup {"currentTagChanged"}]
        ELSE a3

\* new RFID_Tag with one field set
WithNewTag(a, f, value) ==
    LET id == NewTagId(a.cur, a.tags)
    IN  [tag |-> id, a |-> [a EXCEPT !.heap[id] = [EmptyTag EXCEPT ![f] = value]]]

\* RFID::onEpcFound
onEpcFound(a, epc) ==
    LET n == WithNewTag(a, "epc", epc)
    IN  IF a.cur # NULL
        THEN IF a.heap[a.cur].epc # epc /\ a.heap[a.cur].epc # <<>>
             THEN updateTagList(n.a, n.tag)
             ELSE updateTagData(a, a.cur, "epc", epc)
        ELSE updateTagList(n.a, n.tag)

\* RFID::onTidFound, RFID::onRfuFound, RFID::onUsrFound: field f is tid, rfu, usr[d]
onFieldFound(a, f, value) ==
    LET n == WithNewTag(a, f, value)
    IN  IF a.cur # NULL
        THEN IF a.heap[a.cur][f] # value /\ a.heap[a.cur][f] # <<>>
             THEN updateTagList(n.a, n.tag)
             ELSE updateTagList(updateTagData(a, a.cur, f, value), a.cur)
        ELSE updateTagList(n.a, n.tag)

onTidFound(a, tid) == onFieldFound(a, "tid", tid)
onRfuFound(a, rfu) == onFieldFound(a, "rfu", rfu)
onUsrFound(a, usr, datagram) == onFieldFound(a, UsrField(datagram), usr)

\* RFID::resetCurrentTag
resetCurrentTag(a) ==
    IF m_reader
    THEN [a EXCEPT !.cur = NULL, !.wd = TRUE, !.sig = @ \cup {"currentTagChanged"}]
    ELSE [a EXCEPT !.wd = TRUE]

\* clearHistory without the reset of the current tag
clearHistoryKeepingCurrent(a) ==
    [a EXCEPT !.tags = <<>>, !.sig = @ \cup {"tagCountChanged"}]

\* RFID::clearHistory
clearHistory(a) ==
    LET b == resetCurrentTag([a EXCEPT !.tags = <<>>])
    IN  [b EXCEPT !.sig = @ \cup {"tagCountChanged"}]

\* a bank event as the driver emits it and the slot it reaches
BankEvent(kind, data, datagram) == [kind |-> kind, data |-> data, datagram |-> datagram]

Deliver(a, ev) ==
    CASE ev.kind = "epcFound" -> onEpcFound(a, ev.data)
      [] ev.kind = "tidFound" -> onTidFound(a, ev.data)
      [] ev.kind = "rfuFound" -> onRfuFound(a, ev.data)
      [] OTHER -> onUsrFound(a, ev.data, ev.datagram)

RECURSIVE DeliverAll(_, _)
DeliverAll(a, evs) ==
    IF evs = <<>> THEN a ELSE DeliverAll(Deliver(a, Head(evs)), Tail(evs))

-----------------------------------------------------------------------------
(* SM-6210 driver: the decoders.  Indices are the C++ ones.  A read past    *)
(* the end of BUFFER through at() or through QByteRef's comparison is not   *)
(* defined; oob is the byte such reads of one batch yield.  A conversion    *)
(* of QByteRef to char past the end yields 0.                              *)

\* BUFFER.at(i), and BUFFER[i] == c
At(buf, i, oob) == IF i < Len(buf) THEN buf[i + 1] ELSE oob

\* static_cast<...>(BUFFER[i])
AtChecked(buf, i) == IF i < Len(buf) THEN buf[i + 1] ELSE 0

\* the loop looking for a header byte: its index, the length when there is none
HeaderShift(buf, header) ==
    LET hits == {i \in 1..Len(buf) : buf[i] = header}
    IN  IF hits = {} THEN Len(buf)
        ELSE (CHOOSE i \in hits : \A k \in hits : i <= k) - 1

\* int division as C++ does it, truncating toward zero
CDiv(a, b) == IF a >= 0 THEN a \div b ELSE 0 - ((0 - a) \div b)

NoPacket(buf) == [ok |-> FALSE, data |-> <<>>, startAddress |-> 0, buf |-> buf]

\* what readInformationPacket removes once a packet is accepted
ConsumedLength(shift, len) == shift + len + 7

\* SM_6210::readInformationPacket
readInformationPacket(buf, shift, label, singleTag, verifyChecksum, oob) ==
    LET size == At(buf, shift + 1, oob)
        headerOk == /\ At(buf, shift + 3, oob) = label[1]
                    /\ At(buf, shift + 4, oob) = label[2]
                    /\ At(buf, shift + 2, oob) =
                          (IF singleTag THEN DEV_READ_SINGLE_TAG ELSE DEV_READ_TAG_DATA)
        len == (AtChecked(buf, shift + 6) * 2) % 256
        checksum == AtChecked(buf, shift + len + 7)
    IN  IF Len(buf) < shift + 1 THEN NoPacket(buf)
        ELSE IF ~(Len(buf) > shift + size) THEN NoPacket(buf)
        ELSE IF ~headerOk THEN NoPacket(buf)
        ELSE IF checksum = Checksum(Mid(buf, shift, len + 7)) \/ ~verifyChecksum
        THEN [ok |-> TRUE,
              data |-> [j \in 1..len |-> At(buf, shift + 6 + j, oob)],
              startAddress |-> SignedChar(AtChecked(buf, shift + 5)),
              buf |-> Remove(buf, 0, ConsumedLength(shift, len))]
        ELSE NoPacket(buf)

\* the bytes readAckPacket expects after the header shift
AckPacketBody ==
    <<HEADER_RESPONSE_CODE, 6, DEV_GET_SINGLE_PARAM, 0, 0, CRP_ADD_USERCODE, 0>>

\* SM_6210::readAckPacket: ok, and the buffer with the 8 bytes at i removed
readAckPacket(buf, i) ==
    LET ok == /\ ~(i + 8 > Len(buf))
              /\ Mid(buf, i, 7) = AckPacketBody
              /\ buf[i + 8] = Checksum(Mid(buf, i, 7))
    IN  [ok |-> ok, buf |-> IF ok THEN Remove(buf, i, 8) ELSE buf]

\* SM_6210::readStdResult
readStdResult(buf) ==
    LET shift == HeaderShift(buf, HEADER_RESULT_CODE)
    IN  IF shift < Len(buf) /\ Len(buf) > shift + 1
        THEN [ok |-> TRUE, buf |-> Remove(buf, 0, shift + SignedChar(buf[shift + 2]))]
        ELSE [ok |-> FALSE, buf |-> buf]

\* SM_6210::readStdResponse
readStdResponse(buf) ==
    LET shift == HeaderShift(buf, HEADER_RESPONSE_CODE)
    IN  IF shift < Len(buf) /\ Len(buf) > shift + 1 /\ SignedChar(buf[shift + 2]) < 6
        THEN [ok |-> TRUE, buf |-> Remove(buf, 0, shift + SignedChar(buf[shift + 2]))]
        ELSE [ok |-> FALSE, buf |-> buf]

\* readUsrPacket: the datagram of a start address, and whether it is emitted
Datagram(startAddress) == CDiv(startAddress, 8)
DatagramInRange(datagram) == ~(datagram > RFID_NUM_USER_DATAGRAMS - 1 \/ datagram < 0)

Decoded(by, buf, events, ack) ==
    [matched |-> by # "none", by |-> by, buf |-> buf, events |-> events, ack |-> ack]

\* onDataReceived, the chain of decoders on the buffer the data was appended to.
\* A decoder that fails leaves the buffer as it was, so the loops by which
\* readAckPacket and readInformationPacket look for the header all stop at
\* the same index, shift
Decode(buf, oob) ==
    LET shift == HeaderShift(buf, HEADER_RESPONSE_CODE)
        ack == readAckPacket(buf, shift)
        scanEpc == readInformationPacket(buf, shift, EPC_LABEL, TRUE, FALSE, oob)
        epc == readInformationPacket(buf, shift, EPC_LABEL, FALSE, TRUE, oob)
        tid == readInformationPacket(buf, shift, TID_LABEL, FALSE, TRUE, oob)
        rfu == readInformationPacket(buf, shift, RFU_LABEL, FALSE, TRUE, oob)
        usr == readInformationPacket(buf, shift, USR_LABEL, FALSE, TRUE, oob)
        datagram == Datagram(usr.startAddress)
        response == readStdResponse(usr.buf)
        result == readStdResult(usr.buf)
    IN  IF ack.ok THEN Decoded("readAckPacket", ack.buf, <<>>, TRUE)
        ELSE IF scanEpc.ok
        THEN Decoded("readEpcPacketFromScan", scanEpc.buf,
                     <<BankEvent("epcFound", scanEpc.data, 0)>>, FALSE)
        ELSE IF epc.ok
        THEN Decoded("readEpcPacket", epc.buf, <<BankEvent("epcFound", epc.data, 0)>>, FALSE)
        ELSE IF tid.ok
        THEN Decoded("readTagIdPacket", tid.buf, <<BankEvent("tidFound", tid.data, 0)>>, FALSE)
        ELSE IF rfu.ok
        THEN Decoded("readRfuPacket", rfu.buf, <<BankEvent("rfuFound", rfu.data, 0)>>, FALSE)
        ELSE IF usr.ok /\ DatagramInRange(datagram)
        THEN Decoded("readUsrPacket", usr.buf,
                     <<BankEvent("usrFound", usr.data, datagram)>>, FALSE)
        ELSE IF response.ok THEN Decoded("readStdResponse", response.buf, <<>>, FALSE)
        ELSE IF result.ok THEN Decoded("readStdResult", result.buf, <<>>, FALSE)
        ELSE Decoded("none", usr.buf, <<>>, FALSE)

-----------------------------------------------------------------------------
(* SM-6210 driver: onDataReceived and scan                                 *)

\* onDataReceived with the decoders run from the last header byte of the
\* buffer, what is in front of it being left in the buffer
onDataReceivedFromLastHeader(data, oob, plan) ==
    LET appended == BUFFER \o data
        hits == {i \in 1..Len(appended) : appended[i] = HEADER_RESPONSE_CODE}
        from == IF hits = {} THEN 1 ELSE CHOOSE i \in hits : \A k \in hits : i >= k
        front == SubSeq(appended, 1, from - 1)
        d == Decode(SubSeq(appended, from, Len(appended)), oob)
        ignored == [buf |-> BUFFER, shit |-> m_shitCount, events |-> <<>>,
                    sent |-> <<>>, matched |-> FALSE, by |-> "ignored"]
    IN  IF data = <<>> THEN ignored
        ELSE IF ~loaded THEN ignored
        ELSE IF d.matched
        THEN [buf |-> front \o d.buf, shit |-> m_shitCount, events |-> d.events,
              sent |-> IF d.ack THEN <<Submission(AckResponsePacket, 1, plan)>> ELSE <<>>,
              matched |-> TRUE, by |-> d.by]
        ELSE [buf |-> appended, shit |-> (m_shitCount + 1) % 256, events |-> <<>>,
              sent |-> <<>>, matched |-> FALSE, by |-> "none"]

\* what onDataReceived leaves: buffer, shit count, events emitted, packets sent
\* SM_6210::onDataReceived
onDataReceived(data, oob, plan) ==
    LET appended == BUFFER \o data
        d == Decode(appended, oob)
        ignored == [buf |-> BUFFER, shit |-> m_shitCount, events |-> <<>>,
                    sent |-> <<>>, matched |-> FALSE, by |-> "ignored"]
    IN  IF data = <<>> THEN ignored
        ELSE IF ~loaded THEN ignored
        ELSE IF d.matched
        THEN [buf |-> d.buf, shit |-> m_shitCount, events |-> d.events,
              sent |-> IF d.ack THEN <<Submission(AckResponsePacket, 1, plan)>> ELSE <<>>,
              matched |-> TRUE, by |-> d.by]
        ELSE [buf |-> IF Len(d.buf) > RFID_MAX_BUFFER_SIZE THEN <<>> ELSE d.buf,
              shit |-> (m_shitCount + 1) % 256, events |-> <<>>, sent |-> <<>>,
              matched |-> FALSE, by |-> "none"]

\* a selector that goes back to the first bank after the second
NextSelectorTwoBanks(selector) == IF selector = 0 THEN 1 ELSE 0

\* the selector after the bank read of one tick
NextSelector(selector) == IF selector \in {0, 1, 2} THEN selector + 1 ELSE 0

\* a request at the stored address, without the reset above 24
UsrRequestAddressNoReset == m_userStartAddress

\* SM_6210::readUsr: the address requested, and the one stored afterwards
UsrRequestAddress == IF m_userStartAddress > 24 THEN 0 ELSE m_userStartAddress
\* a cursor that advances by two datagrams
UsrNextAddressBySixteen == (UsrRequestAddress + 16) % 256
UsrNextAddress == (UsrRequestAddress + 8) % 256

\* a tick that asks for the parameter whatever the count of unmatched batches
ScanPacketNeverStops ==
    IF m_currentTag = NULL
    THEN GetSingleParamPacket
    ELSE CASE m_selector = 0 -> ReadPacket(TID_LABEL, 0, 6)
           [] m_selector = 1 -> ReadPacket(RFU_LABEL, 0, 4)
           [] m_selector = 2 -> ReadPacket(USR_LABEL, UsrRequestAddress, 8)
           [] OTHER -> ReadPacket(EPC_LABEL, 2, 6)

\* SM_6210::scan: the packet of this tick
ScanPacket ==
    IF m_currentTag = NULL
    THEN IF m_shitCount > SHIT_THRESHOLD THEN StopSearchPacket ELSE GetSingleParamPacket
    ELSE CASE m_selector = 0 -> ReadPacket(TID_LABEL, 0, 6)
           [] m_selector = 1 -> ReadPacket(RFU_LABEL, 0, 4)
           [] m_selector = 2 -> ReadPacket(USR_LABEL, UsrRequestAddress, 8)
           [] OTHER -> ReadPacket(EPC_LABEL, 2, 6)

\* a tick that never resets the count of unmatched batches
scanKeepsCount ==
    IF m_currentTag = NULL
    THEN [selector |-> 0, shit |-> m_shitCount, address |-> m_userStartAddress]
    ELSE [selector |-> NextSelector(m_selector), shit |-> m_shitCount,
          address |-> IF m_selector = 2 THEN UsrNextAddress ELSE m_userStartAddress]

\* SM_6210::scan: selector, shit count and user address after the tick
scan ==
    IF m_currentTag = NULL
    THEN [selector |-> 0,
          shit |-> IF m_shitCount > SHIT_THRESHOLD THEN 0 ELSE m_shitCount,
          address |-> m_userStartAddress]
    ELSE [selector |-> NextSelector(m_selector),
          shit |-> m_shitCount,
          address |-> IF m_selector = 2 THEN UsrNextAddress ELSE m_userStartAddress]

-----------------------------------------------------------------------------
(* RFID facade and MainWindow                                              *)

\* RFID::readerAccessible
readerAccessible == IF m_reader THEN loaded ELSE FALSE

\* RFID::writeEpc, RFID::writeRfu, RFID::writeUserData
RFID_writeEpc(epc, plan) == IF readerAccessible THEN writeEpc(epc, 0, plan) ELSE NoWrite
RFID_writeRfu(rfu, plan) == IF readerAccessible THEN writeRfu(rfu, 0, plan) ELSE NoWrite
RFID_writeUserData(userData, plan) ==
    IF readerAccessible THEN writeUserData(userData, 0, plan) ELSE NoWrite

\* the characters a write field may hold: two hex digits, a blank, a non-digit
HexAlphabet == {"1", "E", " ", "Z"}
HexValue(c) == CASE c = "1" -> 1 [] c = "E" -> 14 [] OTHER -> 0 - 1

NotBlank(c) == c # " "
WithoutSpaces(text) == SelectSeq(text, NotBlank)

\* HexToBinary, the loop over the text with the blanks removed: two characters
\* a byte; a pair that is no number (and the pair an odd length leaves
\* incomplete) ends the conversion with ok false and no bytes
HexPairs(data) ==
    LET pairs == (Len(data) + 1) \div 2
        value(k) == IF 2 * k > Len(data) THEN 0 - 1
                    ELSE IF HexValue(data[2 * k - 1]) < 0 \/ HexValue(data[2 * k]) < 0
                    THEN 0 - 1
                    ELSE 16 * HexValue(data[2 * k - 1]) + HexValue(data[2 * k])
    IN  IF \A k \in 1..pairs : value(k) >= 0
        THEN [ok |-> TRUE, binary |-> [k \in 1..pairs |-> value(k)]]
        ELSE [ok |-> FALSE, binary |-> <<>>]

\* HexToBinary
HexToBinary(hex) == HexPairs(WithoutSpaces(hex))

\* the while loop that adds zeroes up to the bank's length
ZeroPadded(binary, length) ==
    IF Len(binary) < length THEN binary \o Fill(0, length - Len(binary)) ELSE binary

\* MainWindow::writeEpcData / writeRfuData / writeUserData up to the call of
\* the facade: the bytes to write, or no call
PreparedPayload(text, length) ==
    LET h == HexToBinary(text)
        padded == ZeroPadded(h.binary, length)
    IN  [call |-> h.ok /\ ~(Len(padded) > length), bytes |-> padded]

-----------------------------------------------------------------------------
(* What the reader sends, in the layout the decoders read                  *)

\* a response to a bank read: header, size, opcode, label, start, words, data, checksum
BankResponse(opcode, label, startAddress, data) ==
    WithChecksum(<<HEADER_RESPONSE_CODE, (6 + Len(data)) % 256, opcode, label[1], label[2],
                   startAddress, Len(data) \div 2>> \o data)

\* the acknowledge readAckPacket answers
AckPacket == WithChecksum(AckPacketBody)

\* a packet with its last byte off by one
Corrupted(packet) ==
    [i \in 1..Len(packet) |-> IF i = Len(packet) THEN (packet[i] + 1) % 256 ELSE packet[i]]

\* the rates the baud rate box offers
BaudRates == {LOADED_BAUD_RATE, 115200}

\* the byte a read past the end of BUFFER may yield
OobBytes == {0, 1}

\* how much one readAll() takes of what the reader has sent
ChunkLengths == (1..Min(MaxChunk, Len(wire))) \cup {Len(wire)}

-----------------------------------------------------------------------------
(* Observer                                                                *)

Observed(op, arg, sent, events, result, sig, by) ==
    [op |-> op, arg |-> arg, sent |-> sent, events |-> events, result |-> result,
     sig |-> sig, by |-> by]

\* the aggregator's part of a step, from the handler's threaded record
ApplyAgg(a) ==
    LET p == Placed(a.cur, a.tags, a.heap)
    IN
    /\ m_currentTag' = p.cur
    /\ m_tags' = p.tags
    /\ heap' = p.heap
    /\ m_watchdog' = IF a.wd THEN RFID_CURRENT_TAG_TIMEOUT ELSE m_watchdog

-----------------------------------------------------------------------------
(* Initial state: RFID_SerialManager, RFID constructed, no driver yet      *)

Init ==
    /\ connected = FALSE
    /\ m_baudRate \in BaudRates
    /\ m_reader = FALSE
    /\ BUFFER = <<>>
    /\ m_selector = 0
    /\ m_shitCount = 0
    /\ m_userStartAddress = 0
    /\ m_currentTag = NULL
    /\ m_tags = <<>>
    /\ heap = [id \in TagIds |-> EmptyTag]
    /\ m_watchdog = Inactive
    /\ startTimer = RFID_CURRENT_TAG_TIMEOUT
    /\ messageBox = FALSE
    /\ wire = <<>>
    /\ sinceBankEvent = RFID_CURRENT_TAG_TIMEOUT
    /\ reported = <<>>
    /\ last = Observed("init", <<>>, <<>>, <<>>, FALSE, {}, "")

-----------------------------------------------------------------------------
(* Actions                                                                 *)

\* RFID::setReader(0): new SM_6210, unloadReader, clearHistory, m_reader = newReader
SetReader ==
    LET a == clearHistory(AggState)
    IN  /\ ~messageBox
        /\ m_reader' = TRUE
        /\ m_selector' = 0
        /\ m_shitCount' = 0
        /\ m_userStartAddress' = 0
        /\ ApplyAgg([a EXCEPT !.cur = NULL])
        /\ last' = Observed("setReader", <<>>, <<>>, <<>>, FALSE,
                            a.sig \cup {"readerChanged"}, "")
        /\ UNCHANGED <<connected, m_baudRate, BUFFER, startTimer, wire, sinceBankEvent, messageBox, reported>>

\* MainWindow::connectDevice: connect (clearHistory, setBaudRate, setDevice) or disconnect
ConnectDevice(rate, opened) ==
    /\ ~messageBox
    /\ IF ~connected
       THEN LET a == clearHistory(AggState)
            IN  /\ connected' = opened
                /\ m_baudRate' = rate
                /\ ApplyAgg(a)
                /\ last' = Observed("connectDevice", <<>>, <<>>, <<>>, opened, a.sig, "")
                /\ UNCHANGED <<m_reader, driverVars, startTimer, wire, sinceBankEvent, messageBox, reported>>
       ELSE /\ connected' = FALSE
            /\ wire' = <<>>
            /\ last' = Observed("disconnectDevice", <<>>, <<>>, <<>>, FALSE, {}, "")
            /\ UNCHANGED <<m_baudRate, m_reader, driverVars, tagVars, m_watchdog,
                           startTimer, sinceBankEvent, messageBox, reported>>

\* MainWindow::updateDevice: another port selected, disconnectDevice(false)
UpdateDevice ==
    /\ ~messageBox
    /\ connected
    /\ connected' = FALSE
    /\ wire' = <<>>
    /\ last' = Observed("updateDevice", <<>>, <<>>, <<>>, FALSE, {}, "")
    /\ UNCHANGED <<m_baudRate, m_reader, driverVars, tagVars, m_watchdog,
                   startTimer, sinceBankEvent, messageBox, reported>>

\* RFID_SerialManager::setBaudRate from the baud rate box
SetBaudRate(rate) ==
    /\ ~messageBox
    /\ rate # m_baudRate
    /\ m_baudRate' = rate
    /\ last' = Observed("setBaudRate", <<>>, <<>>, <<>>, FALSE, {}, "")
    /\ UNCHANGED <<connected, m_reader, driverVars, tagVars, m_watchdog,
                   startTimer, wire, sinceBankEvent, messageBox, reported>>

\* the reader starts sending one of the given streams
ReaderSends(streams) ==
    /\ connected
    /\ wire = <<>>
    /\ Len(BUFFER) <= MaxBacklog
    /\ m_shitCount < MaxShitCount
    /\ Len(m_tags) < MaxTags
    /\ \E s \in streams : wire' = s
    /\ reported' = <<>>
    /\ UNCHANGED <<transportVars, m_reader, driverVars, tagVars, m_watchdog,
                   startTimer, sinceBankEvent, messageBox, last>>

\* RFID_SerialManager::onReadyRead handing data to SM_6210::onDataReceived, whose
\* bank events reach the aggregator's slots before it returns; r is what
\* onDataReceived makes of data
DataReceived(data, r) ==
    LET a == DeliverAll(AggState, r.events)
    IN  IF m_reader
        THEN /\ BUFFER' = r.buf
             /\ m_shitCount' = r.shit
             /\ ApplyAgg(a)
             /\ sinceBankEvent' = IF r.events # <<>> THEN 0 ELSE sinceBankEvent
             /\ reported' = IF wire = <<>> THEN reported ELSE reported \o r.events
             /\ last' = Observed("onDataReceived", data, r.sent, r.events,
                                 r.matched, a.sig, r.by)
        ELSE /\ last' = Observed("onReadyRead", data, <<>>, <<>>, FALSE, {}, "")
             /\ UNCHANGED <<BUFFER, m_shitCount, tagVars, m_watchdog, sinceBankEvent,
                            reported>>

\* the indices of buf the bank decoders read: the size byte whenever a byte
\* of buf is the header; opcode and label when the size test passes; address,
\* count and checksum when a decoder knows opcode and label (the payload
\* lies before the checksum)
IndicesRead(buf) ==
    LET shift == HeaderShift(buf, HEADER_RESPONSE_CODE)
        size == AtChecked(buf, shift + 1)
        len == (AtChecked(buf, shift + 6) * 2) % 256
        label == <<AtChecked(buf, shift + 3), AtChecked(buf, shift + 4)>>
        headerOk == \/ /\ AtChecked(buf, shift + 2) = DEV_READ_TAG_DATA
                       /\ label \in {EPC_LABEL, TID_LABEL, RFU_LABEL, USR_LABEL}
                    \/ /\ AtChecked(buf, shift + 2) = DEV_READ_SINGLE_TAG
                       /\ label = EPC_LABEL
    IN  IF Len(buf) < shift + 1 THEN {}
        ELSE IF ~(Len(buf) > shift + size) THEN {shift + 1}
        ELSE IF ~headerOk THEN (shift + 1)..(shift + 4)
        ELSE (shift + 1)..(shift + 6) \cup {shift + len + 7}

\* no decoder reads past the end of buf: there is no header, or the bytes from
\* the header on are as many as the packet's length byte asks for
ReadsWithin(buf) ==
    LET shift == HeaderShift(buf, HEADER_RESPONSE_CODE)
    IN  \/ shift >= Len(buf)
        \/ Len(buf) - shift >= 8 + ((AtChecked(buf, shift + 6) * 2) % 256)

\* what onDataReceived can make of data: one outcome for every byte a read past
\* the end may yield and, when a packet is sent, for every answer of the port
Outcomes(data) ==
    UNION {LET r == onDataReceived(data, oob, FullPlan)
           IN  IF r.sent = <<>> THEN {r}
               ELSE {[r EXCEPT !.sent = <<Submission(AckResponsePacket, 1, plan)>>] :
                        plan \in WritePlans(1)}
           : oob \in IF ReadsWithin(BUFFER \o data) THEN {0} ELSE OobBytes}

\* onReadyRead: one readAll() takes the first n bytes the reader has sent
OnReadyRead ==
    /\ connected
    /\ wire # <<>>
    /\ \E n \in ChunkLengths :
        /\ wire' = SubSeq(wire, n + 1, Len(wire))
        /\ \E r \in Outcomes(SubSeq(wire, 1, n)) : DataReceived(SubSeq(wire, 1, n), r)
    /\ UNCHANGED <<transportVars, m_reader, m_selector, m_userStartAddress, startTimer, messageBox>>

\* onReadyRead: one of the given streams arrives in a single readAll()
ReaderDelivers(streams) ==
    /\ connected
    /\ wire = <<>>
    /\ Len(BUFFER) <= MaxBacklog
    /\ m_shitCount < MaxShitCount
    /\ \E data \in streams : \E r \in Outcomes(data) : DataReceived(data, r)
    /\ UNCHANGED <<transportVars, m_reader, m_selector, m_userStartAddress, startTimer,
                   wire, messageBox>>

\* RFID::scan, the facade's tick
RFID_scan ==
    /\ startTimer \in {0, Inactive}
    /\ \E plan \in IF readerAccessible THEN WritePlans(1) ELSE {FullPlan} :
        IF readerAccessible
        THEN /\ m_selector' = scan.selector
             /\ m_shitCount' = scan.shit
             /\ m_userStartAddress' = scan.address
             /\ last' = Observed("scan", <<>>, <<Submission(ScanPacket, 1, plan)>>, <<>>,
                                 m_currentTag # NULL, {}, "")
        ELSE /\ last' = Observed("scan", <<>>, <<>>, <<>>, m_currentTag # NULL, {}, "")
             /\ UNCHANGED <<m_selector, m_shitCount, m_userStartAddress>>
    /\ UNCHANGED <<transportVars, m_reader, BUFFER, tagVars, timeVars, wire, messageBox, reported>>

\* the constructor's single shot that starts the watchdog
StartWatchdog ==
    /\ startTimer = 0
    /\ startTimer' = Inactive
    /\ m_watchdog' = RFID_CURRENT_TAG_TIMEOUT
    /\ last' = Observed("startWatchdog", <<>>, <<>>, <<>>, FALSE, {}, "")
    /\ UNCHANGED <<transportVars, m_reader, driverVars, tagVars, wire, sinceBankEvent, messageBox, reported>>

\* m_watchdog times out: RFID::resetCurrentTag
WatchdogTimeout ==
    LET a == resetCurrentTag(AggState)
    IN  /\ m_watchdog = 0
        /\ ApplyAgg(a)
        /\ last' = Observed("resetCurrentTag", <<>>, <<>>, <<>>, m_currentTag # NULL,
                            a.sig, "")
        /\ UNCHANGED <<transportVars, m_reader, driverVars, startTimer, wire, sinceBankEvent,
                       messageBox, reported>>

\* time passes, up to the next timer that is due
TimeStep == RFID_CURRENT_TAG_TIMEOUT \div TimeSlices
Elapse ==
    LET left(t) == IF t = Inactive THEN TimeStep ELSE t
        d == Min(TimeStep, Min(left(m_watchdog), left(startTimer)))
        run(t) == IF t = Inactive THEN Inactive ELSE t - d
    IN  /\ m_watchdog # 0
        /\ startTimer # 0
        /\ m_watchdog' = run(m_watchdog)
        /\ startTimer' = run(startTimer)
        /\ sinceBankEvent' = Min(RFID_CURRENT_TAG_TIMEOUT, sinceBankEvent + d)
        /\ sinceBankEvent' # sinceBankEvent \/ m_watchdog # Inactive \/ startTimer # Inactive
        /\ UNCHANGED <<transportVars, m_reader, driverVars, tagVars, wire, last, messageBox, reported>>

\* the Clear button: RFID::clearHistory; the observer keeps what there was to clear
ClearHistory ==
    LET a == clearHistory(AggState)
    IN  /\ ~messageBox
        /\ ApplyAgg(a)
        /\ last' = Observed("clearHistory", [tagCount |-> Len(m_tags), currentTag |-> m_currentTag],
                            <<>>, <<>>, FALSE, a.sig, "")
        /\ UNCHANGED <<transportVars, m_reader, driverVars, startTimer, wire, sinceBankEvent,
                       messageBox, reported>>

-----------------------------------------------------------------------------
(* The write fields and buttons of MainWindow                              *)

Repeat(q, n) == [i \in 1..(n * Len(q)) |-> q[((i - 1) % Len(q)) + 1]]

RECURSIVE TextsUpTo(_)
TextsUpTo(n) ==
    IF n = 0 THEN {<<>>}
    ELSE LET T == TextsUpTo(n - 1)
         IN  T \cup {Append(t, c) : t \in T, c \in HexAlphabet}

\* texts of whole bytes around the lengths of the banks
LongTexts == {Repeat(<<"1", "E">>, n) : n \in {7, 8, 9, 12, 13, 63, 64, 65}}

\* a text of 64 bytes no two neighbouring segments of which are alike
MixedText ==
    Repeat(<<"1", "1">>, 16) \o Repeat(<<"1", "E">>, 16) \o
    Repeat(<<"E", "1">>, 16) \o Repeat(<<"E", "E">>, 16)

Texts == TextsUpTo(MaxHexChars) \cup LongTexts \cup {MixedText}

\* the texts typed and the ways the port answers: every text with a port that
\* takes everything, and one text the bank holds with every answer of the port
WriteInputs(text, n) ==
    {<<t, FullPlan>> : t \in Texts} \cup {<<text, plan>> : plan \in WritePlans(n)}

\* MainWindow::writeEpcData / writeRfuData / writeUserData; each of their paths
\* ends in a message box
WriteButton(op, text, p, w) ==
    /\ ~messageBox
    /\ messageBox' = TRUE
    /\ last' = Observed(op, [text |-> text, call |-> p.call, bytes |-> p.bytes],
                        IF p.call THEN w.sent ELSE <<>>, <<>>,
                        IF p.call THEN w.ok ELSE FALSE, {}, "")
    /\ UNCHANGED <<transportVars, m_reader, driverVars, tagVars, timeVars, wire, reported>>

WriteEpcData ==
    \E in \in WriteInputs(Repeat(<<"1", "E">>, RFID_EPC_LENGTH), WRITE_REPEATS) :
        LET p == PreparedPayload(in[1], RFID_EPC_LENGTH)
        IN  WriteButton("writeEpc", in[1], p, RFID_writeEpc(p.bytes, in[2]))

WriteRfuData ==
    \E in \in WriteInputs(Repeat(<<"1", "E">>, RFID_RFU_LENGTH), WRITE_REPEATS) :
        LET p == PreparedPayload(in[1], RFID_RFU_LENGTH)
        IN  WriteButton("writeRfu", in[1], p, RFID_writeRfu(p.bytes, in[2]))

WriteUserData ==
    \E in \in WriteInputs(MixedText, WRITE_REPEATS * RFID_NUM_USER_DATAGRAMS) :
        LET p == PreparedPayload(in[1], RFID_USER_LENGTH)
        IN  WriteButton("writeUserData", in[1], p, RFID_writeUserData(p.bytes, in[2]))

\* RFID::eraseTag, the answer to the question box being Yes or No
EraseTag ==
    \E yes \in BOOLEAN :
    \E plan \in IF yes THEN WritePlans(WRITE_REPEATS * (2 + RFID_NUM_USER_DATAGRAMS))
                ELSE {FullPlan} :
        LET w == IF yes /\ m_reader THEN eraseTag(plan) ELSE NoWrite
        IN  /\ ~messageBox
            /\ messageBox' = (yes /\ m_reader)
            /\ last' = Observed("eraseTag", yes, w.sent, <<>>, w.ok, {}, "")
            /\ UNCHANGED <<transportVars, m_reader, driverVars, tagVars, timeVars, wire, reported>>

\* RFID::killTag and RFID::lockTag: the question box is answered Yes or No,
\* the driver's function is called if it was Yes and a driver is set, and
\* its answer is shown in a message box
TagCommand(op, answer) ==
    \E yes \in BOOLEAN :
        /\ ~messageBox
        /\ messageBox' = (yes /\ m_reader)
        /\ last' = Observed(op, yes, <<>>, <<>>, yes /\ m_reader /\ answer, {}, "")
        /\ UNCHANGED <<transportVars, m_reader, driverVars, tagVars, timeVars, wire, reported>>

KillTag == TagCommand("killTag", killTag)

LockTag == TagCommand("lockTag", lockTag)

\* the message box a write or the erase ended in is closed
CloseMessageBox ==
    /\ messageBox
    /\ messageBox' = FALSE
    /\ last' = Observed("messageBoxClosed", <<>>, <<>>, <<>>, FALSE, {}, "")
    /\ UNCHANGED <<transportVars, m_reader, driverVars, tagVars, timeVars, wire, reported>>

-----------------------------------------------------------------------------
(* What the reader is taken to send                                        *)

\* bank contents of the tags in the field, two bytes (one word) each, such
\* that the frames carrying them all end in the same checksum byte
EpcValues == {<<170, 187>>, <<187, 170>>}
TidValues == {<<171, 187>>, <<187, 171>>}
RfuValues == {<<180, 180>>}
UsrValues == {<<174, 175>>}

EpcFrames == {BankResponse(DEV_READ_TAG_DATA, EPC_LABEL, 2, v) : v \in EpcValues}
ScanEpcFrames == {BankResponse(DEV_READ_SINGLE_TAG, EPC_LABEL, 2, <<170, 187>>)}
TidFrames == {BankResponse(DEV_READ_TAG_DATA, TID_LABEL, 0, v) : v \in TidValues}
RfuFrames == {BankResponse(DEV_READ_TAG_DATA, RFU_LABEL, 0, v) : v \in RfuValues}
UsrFrames == {BankResponse(DEV_READ_TAG_DATA, USR_LABEL, 8, v) : v \in UsrValues}

\* valid responses to the four bank reads
BankFrames == EpcFrames \cup TidFrames \cup RfuFrames \cup UsrFrames

\* bytes that hold no header, before and after a frame
Prefixes == {<<>>, <<255, 255, 255>>}
Suffixes == {<<>>, <<7>>}

\* the bank event a valid response stands for
EventOf(frame) ==
    LET data == SubSeq(frame, 8, Len(frame) - 1)
    IN  CASE <<frame[4], frame[5]>> = EPC_LABEL -> BankEvent("epcFound", data, 0)
          [] <<frame[4], frame[5]>> = TID_LABEL -> BankEvent("tidFound", data, 0)
          [] <<frame[4], frame[5]>> = RFU_LABEL -> BankEvent("rfuFound", data, 0)
          [] OTHER -> BankEvent("usrFound", data, frame[6] \div 8)

\* streams of the aggregator's specification: whole frames, one per readAll(),
\* of the banks whose contents tell two tags apart
AggStreams == EpcFrames \cup TidFrames \cup RfuFrames

\* streams of the watchdog's specification: a frame of every bank and opcode
WatchdogStreams ==
    EpcFrames \cup {BankResponse(DEV_READ_TAG_DATA, TID_LABEL, 0, <<171, 187>>)}
        \cup RfuFrames \cup UsrFrames

\* streams of the ingress specification: a frame between bytes that are none
IngressFrames ==
    {BankResponse(DEV_READ_TAG_DATA, TID_LABEL, 0, <<171, 187>>),
     BankResponse(DEV_READ_TAG_DATA, USR_LABEL, 8, <<174, 175>>)}
IngressStreams ==
    {g \o f \o h : g \in Prefixes, f \in IngressFrames, h \in Suffixes}
        \cup {AckPacket, Corrupted(AckPacket)}

\* streams of the write specification: what makes a tag current, and the
\* acknowledge the driver answers
WireStreams == {BankResponse(DEV_READ_TAG_DATA, TID_LABEL, 0, <<171, 187>>), AckPacket}

\* streams of the overflow specification: short ones, and a result header
\* whose size byte is zero in front of RFID_MAX_BUFFER_SIZE further bytes
ShortStreams == {<<>>, <<255>>, <<HEADER_RESULT_CODE, 2, 0>>}
BulkStream == <<HEADER_RESULT_CODE, 0>> \o Fill(0, RFID_MAX_BUFFER_SIZE)
OverflowStreams == ShortStreams \cup {BulkStream, Fill(255, RFID_MAX_BUFFER_SIZE)}

-----------------------------------------------------------------------------
(* Specifications                                                          *)

Setup ==
    \/ SetReader
    \/ \E rate \in BaudRates, opened \in BOOLEAN : ConnectDevice(rate, opened)

Timers ==
    \/ Elapse
    \/ StartWatchdog
    \/ WatchdogTimeout

\* the write buttons, the erase button and the tick, with a tag in the field
NextWire ==
    \/ Setup
    \/ ReaderDelivers(WireStreams)
    \/ WriteEpcData
    \/ WriteRfuData
    \/ WriteUserData
    \/ EraseTag
    \/ CloseMessageBox
SpecWire == Init /\ [][NextWire]_vars

\* every command of the tag menu, the port and the baud rate changing under them
NextCommands ==
    \/ Setup
    \/ UpdateDevice
    \/ \E rate \in BaudRates : SetBaudRate(rate)
    \/ ReaderDelivers(WireStreams)
    \/ WriteEpcData
    \/ WriteRfuData
    \/ WriteUserData
    \/ EraseTag
    \/ KillTag
    \/ LockTag
    \/ CloseMessageBox
SpecCommands == Init /\ [][NextCommands]_vars

\* the decoders under any cutting of one of the given streams
NextStream(streams) ==
    \/ Setup
    \/ ReaderSends(streams)
    \/ OnReadyRead

\* the acknowledge among other bytes
AckStreams == {g \o AckPacket \o h : g \in Prefixes, h \in Suffixes}
SpecAck == Init /\ [][NextStream(AckStreams)]_vars

\* a response whose checksum is wrong, a valid EPC response and one more byte
CorruptStreams ==
    {Corrupted(c) \o e \o <<7>> : c \in RfuFrames \cup UsrFrames, e \in EpcFrames}
SpecCorrupt == Init /\ [][NextStream(CorruptStreams)]_vars

\* one valid response, its payload plain or holding a header byte, or the
\* response to a single-tag read
FragmentFrames ==
    {BankResponse(DEV_READ_TAG_DATA, TID_LABEL, 0, v) :
        v \in {<<171, 187>>, <<HEADER_RESPONSE_CODE, 1>>, <<HEADER_RESULT_CODE, 1>>}}
    \cup ScanEpcFrames
SpecFragment == Init /\ [][NextStream(FragmentFrames)]_vars

\* two valid responses of different banks and tags, and one more byte after them
OrderPairs ==
    {<<BankResponse(DEV_READ_TAG_DATA, TID_LABEL, 0, <<171, 187>>),
       BankResponse(DEV_READ_TAG_DATA, EPC_LABEL, 2, <<170, 187>>)>>,
     <<BankResponse(DEV_READ_TAG_DATA, EPC_LABEL, 2, <<187, 170>>),
       BankResponse(DEV_READ_TAG_DATA, TID_LABEL, 0, <<187, 171>>)>>}
OrderStreams == {p[1] \o p[2] \o <<7>> : p \in OrderPairs}
SpecOrder == Init /\ [][NextStream(OrderStreams)]_vars

\* the aggregator under whole frames and the Clear button, time standing still
NextHistory ==
    \/ Setup
    \/ ReaderDelivers(AggStreams)
    \/ ClearHistory
SpecHistory == Init /\ [][NextHistory]_vars

\* responses to a read of the USER bank, at word addresses inside and outside
\* the four datagrams
UserStarts == {0, 24, 31, 32, 248, 255}
UserAddressFrames ==
    {BankResponse(DEV_READ_TAG_DATA, USR_LABEL, start, v) :
        start \in UserStarts, v \in UsrValues}

\* one frame of every kind the decoders know, followed by nothing or by a
\* stray response or a stray result
PriorityFrames ==
    {AckPacket, BankResponse(DEV_READ_SINGLE_TAG, EPC_LABEL, 2, <<170, 187>>),
     BankResponse(DEV_READ_TAG_DATA, EPC_LABEL, 2, <<170, 187>>),
     BankResponse(DEV_READ_TAG_DATA, TID_LABEL, 0, <<171, 187>>),
     BankResponse(DEV_READ_TAG_DATA, RFU_LABEL, 0, <<180, 180>>),
     BankResponse(DEV_READ_TAG_DATA, USR_LABEL, 8, <<174, 175>>),
     BankResponse(DEV_READ_TAG_DATA, USR_LABEL, 32, <<174, 175>>),
     <<HEADER_RESPONSE_CODE, 2>>}
TrailingFrames == {<<>>, <<HEADER_RESPONSE_CODE, 2, 0>>, <<HEADER_RESULT_CODE, 2, 0>>}
PriorityStreams == {f \o g : f \in PriorityFrames, g \in TrailingFrames}

\* the frames of the driver's own encoders, as a reader that echoes them
\* would send them: the four bank reads of the tick, and bank writes of two
\* bytes, of no byte and of bytes that are themselves a response
EncodedFrames ==
    {ReadPacket(TID_LABEL, 0, 6), ReadPacket(RFU_LABEL, 0, 4), ReadPacket(EPC_LABEL, 2, 6)}
    \cup {ReadPacket(USR_LABEL, a, 8) : a \in {0, 8, 16, 24}}
    \cup {WritePacket(data, label, 0, Len(data) \div 2) :
             data \in {<<170, 187>>, <<>>} \cup TidFrames,
             label \in {EPC_LABEL, RFU_LABEL, USR_LABEL}}

\* whole batches read by a loaded or an unloaded driver
NextFrames(streams) ==
    \/ Setup
    \/ ReaderDelivers(streams)
SpecUser == Init /\ [][NextFrames(UserAddressFrames)]_vars
SpecPriority == Init /\ [][NextFrames(PriorityStreams)]_vars
SpecEcho == Init /\ [][NextFrames(EncodedFrames)]_vars

\* the aggregator under whole frames, time, and the Clear button
NextAgg ==
    \/ Setup
    \/ ReaderDelivers(AggStreams)
    \/ Timers
    \/ ClearHistory
SpecAgg == Init /\ [][NextAgg]_vars

\* the watchdog under every kind of bank event
NextWatchdog ==
    \/ Setup
    \/ ReaderDelivers(WatchdogStreams)
    \/ Timers
SpecWatchdog == Init /\ [][NextWatchdog]_vars

\* the tick and the banks it asks for
NextTick ==
    \/ Setup
    \/ ReaderDelivers(WireStreams)
    \/ Timers
    \/ RFID_scan
SpecTick == Init /\ [][NextTick]_vars

\* the reader answers with bytes no decoder matches, or with a stray response
\* that empties the buffer; the tick runs every 20 ms, so the batches read
\* between two ticks are at most MaxBatchesPerTick, which bounds the count
\* while no tag is current; with a current tag no tick resets the count, and
\* nothing bounds it
MaxBatchesPerTick == 2
StuckStreams == {<<255>>, <<HEADER_RESPONSE_CODE, 2>>}
StuckReaderDelivers ==
    /\ connected
    /\ wire = <<>>
    /\ m_currentTag # NULL \/ m_shitCount < SHIT_THRESHOLD + MaxBatchesPerTick
    /\ \E data \in StuckStreams :
        /\ Len(BUFFER) <= MaxBacklog \/ data[1] = HEADER_RESPONSE_CODE
        /\ \E r \in Outcomes(data) : DataReceived(data, r)
    /\ UNCHANGED <<transportVars, m_reader, m_selector, m_userStartAddress, startTimer, wire,
                   messageBox>>

\* the tick under a reader that answers nothing useful; time passes, and the
\* tick re-arms itself, so it runs again and again
NextStuck ==
    \/ Setup
    \/ StuckReaderDelivers
    \/ Timers
    \/ RFID_scan
SpecStuck == Init /\ [][NextStuck]_vars /\ WF_vars(Timers) /\ WF_vars(RFID_scan)

\* a tag in the field whose reader sends, between the frames of the tag,
\* bytes that no decoder matches; the watchdog has not expired yet, and the
\* ticks in between, which find a current tag, leave the count alone
NextWrap ==
    \/ Setup
    \/ ReaderDelivers(ScanEpcFrames)
    \/ StuckReaderDelivers
SpecWrap == Init /\ [][NextWrap]_vars

\* the decoders under any cutting of what the reader sends
NextIngress ==
    \/ Setup
    \/ ReaderSends(IngressStreams)
    \/ OnReadyRead
SpecIngress == Init /\ [][NextIngress]_vars

\* the port and its rate changed under the reader's transmissions
NextPort ==
    \/ Setup
    \/ UpdateDevice
    \/ \E rate \in BaudRates : SetBaudRate(rate)
    \/ ReaderDelivers({AckPacket})
SpecPort == Init /\ [][NextPort]_vars

\* the buffer under large batches
NextOverflow ==
    \/ Setup
    \/ ReaderDelivers(OverflowStreams)
SpecOverflow == Init /\ [][NextOverflow]_vars

Next ==
    \/ NextWire \/ NextAgg \/ NextWatchdog \/ NextTick \/ NextIngress \/ NextPort
    \/ NextOverflow \/ NextCommands \/ NextHistory \/ NextStuck \/ NextWrap
    \/ NextFrames(UserAddressFrames \cup PriorityStreams \cup EncodedFrames)
    \/ NextStream(AckStreams \cup CorruptStreams \cup FragmentFrames \cup OrderStreams)
Spec == Init /\ [][Next]_vars

-----------------------------------------------------------------------------
(* Properties of the frames handed to the transport                        *)

\* the fields of a write frame: header, size, opcode, label, start, length,
\* payload, checksum
FramePayload(frame) == SubSeq(frame, 8, Len(frame) - 1)
FrameLabel(frame) == <<frame[4], frame[5]>>
FrameStart(frame) == frame[6]

\* the frames of a sequence of submissions
FramesOf(sent) == [i \in 1..Len(sent) |-> sent[i].frame]

\* the last step was the named write button, and its write reached the driver
\* with a tag current
WriteReached(op) ==
    /\ last.op = op
    /\ last.arg.call
    /\ readerAccessible
    /\ m_currentTag # NULL

\* submissions from..to of the last step: as many as a bank write makes, every
\* one the same frame
OneBankWrite(from) ==
    /\ Len(last.sent) >= from + WRITE_REPEATS - 1
    /\ \A i \in from..(from + WRITE_REPEATS - 1) : last.sent[i].frame = last.sent[from].frame

AcceptedInFull(from, to) ==
    \A i \in from..to : last.sent[i].accepted = Len(last.sent[i].frame)

\* payloads the builders are tried with, of every length a bank write is given
SamplePayloads ==
    {<<>>, <<255>>, Fill(0, 8), Fill(0, 12), Fill(255, 12), Fill(0, 13), Fill(171, 16),
     Fill(255, 32), Fill(1, 64), <<1, 2, 3, 4, 5, 6, 7, 8, 9, 10, 11, 12>>}
Labels == {RFU_LABEL, EPC_LABEL, TID_LABEL, USR_LABEL}
WordAddresses == 0..255

\* C1: every frame handed to the transport -- STOP_SEARCH, GET_SINGLE_PARAM, the
\* bank reads at any word address, the answer to the acknowledge, and
\* WRITE_BANK for any bank, address and payload -- has bytes, checksum
\* included, that sum to 0 modulo 256
BuiltFramesSumToZero ==
    /\ ByteSum(StopSearchPacket) = 0
    /\ ByteSum(GetSingleParamPacket) = 0
    /\ ByteSum(AckResponsePacket) = 0
    /\ \A label \in Labels : \A addr \in WordAddresses : \A len \in {4, 6, 8} :
           ByteSum(ReadPacket(label, addr, len)) = 0
    /\ \A label \in Labels : \A addr \in {0, 2, 8, 16, 24, 255} : \A len \in {4, 6, 8} :
       \A data \in SamplePayloads :
           ByteSum(WritePacket(data, label, addr, len)) = 0
C1_FrameBytesSumToZero ==
    /\ BuiltFramesSumToZero
    /\ \A i \in 1..Len(last.sent) : ByteSum(last.sent[i].frame) = 0

\* a user write of 64 mixed bytes has handed its frames to the transport
C1_Witness ==
    /\ WriteReached("writeUserData")
    /\ Len(last.sent) = WRITE_REPEATS * RFID_NUM_USER_DATAGRAMS
    /\ \E i \in 1..Len(last.sent) : FramePayload(last.sent[i].frame) # Fill(0, 16)

-----------------------------------------------------------------------------
(* Properties of the ingress and of the aggregator                         *)

\* a step in which onDataReceived took a batch off the wire
IngressStep ==
    /\ wire # <<>>
    /\ Len(wire') < Len(wire)
    /\ last'.op = "onDataReceived"

\* C2: a batch that makes the buffer hold G \o F \o G', G without a header byte
\* and F a valid response to a bank read, emits the bank event of F and
\* removes G and F from the front of the buffer, so that exactly G' remains
C2_FrameAndGarbageRemoved ==
    [][\A g \in Prefixes, f \in IngressFrames, h \in Suffixes :
           (IngressStep /\ BUFFER \o last'.arg = g \o f \o h) =>
               /\ last'.events = <<EventOf(f)>>
               /\ BUFFER' = h]_vars

\* C3: after onDataReceived returns, whatever the batch and the buffer before
\* it, the buffer holds at most RFID_MAX_BUFFER_SIZE bytes
C3_BufferWithinMaximum == Len(BUFFER) <= RFID_MAX_BUFFER_SIZE

\* C4: whatever bank events, watchdog expiries and clearHistory calls came
\* before, no two distinct records of the history have the same non-empty tid
C4_NoTwoRecordsWithOneTid ==
    \A i, j \in 1..Len(m_tags) :
        (m_tags[i] # m_tags[j] /\ heap[m_tags[i]].tid # <<>>) =>
            heap[m_tags[i]].tid # heap[m_tags[j]].tid

\* a step in which the watchdog timed out
ExpiryStep ==
    /\ m_watchdog = 0
    /\ m_watchdog' = RFID_CURRENT_TAG_TIMEOUT
    /\ last'.op = "resetCurrentTag"

\* a step in which bank events reached the aggregator
BankEventStep ==
    /\ last'.op = "onDataReceived"
    /\ last'.events # <<>>
    /\ sinceBankEvent' = 0
    /\ m_reader

\* C5: with a tag current and no bank event for RFID_CURRENT_TAG_TIMEOUT the
\* watchdog is due, and its expiry sets the current tag to none, notifies
\* currentTagChanged and leaves the history, every record's fields included,
\* as it was
C5_ExpiryAfterTimeoutClearsCurrent ==
    /\ [](m_currentTag # NULL /\ sinceBankEvent >= RFID_CURRENT_TAG_TIMEOUT
              => m_watchdog = 0)
    /\ [][(ExpiryStep /\ m_currentTag # NULL) =>
              /\ m_currentTag' = NULL
              /\ "currentTagChanged" \in last'.sig
              /\ Len(m_tags') = Len(m_tags)
              /\ \A i \in 1..Len(m_tags) : heap'[m_tags'[i]] = heap[m_tags[i]]]_vars

\* C6: every bank event re-arms the watchdog, and so the watchdog never clears
\* the current tag less than RFID_CURRENT_TAG_TIMEOUT after the latest bank event
C6_BankEventRearmsWatchdog ==
    /\ [][BankEventStep => m_watchdog' = RFID_CURRENT_TAG_TIMEOUT]_vars
    /\ []((last.op = "resetCurrentTag" /\ last.result)
              => sinceBankEvent >= RFID_CURRENT_TAG_TIMEOUT)

-----------------------------------------------------------------------------
(* Properties of the bank writes                                           *)

\* C7: a bank write (writeEpc, writeRfu, each segment of writeUserData) made
\* with a tag current submits the same frame exactly 10 times, going on after a
\* submission the port did not take, and succeeds iff the port took every one
\* of them in full
C7_TenIdenticalSubmissions ==
    /\ \A op \in {"writeEpc", "writeRfu"} :
           WriteReached(op) =>
               /\ Len(last.sent) = WRITE_REPEATS
               /\ OneBankWrite(1)
               /\ last.result <=> AcceptedInFull(1, WRITE_REPEATS)
    /\ WriteReached("writeUserData") =>
           /\ Len(last.sent) = WRITE_REPEATS * RFID_NUM_USER_DATAGRAMS
           /\ \A n \in 1..RFID_NUM_USER_DATAGRAMS : OneBankWrite(WRITE_REPEATS * (n - 1) + 1)
           /\ last.result <=> AcceptedInFull(1, Len(last.sent))

\* an EPC write whose fifth submission the port did not take in full, and
\* whose later submissions it took
C7_Witness ==
    /\ WriteReached("writeEpc")
    /\ Len(last.sent) = WRITE_REPEATS
    /\ ~AcceptedInFull(5, 5)
    /\ AcceptedInFull(6, WRITE_REPEATS)
    /\ ~last.result

\* C8: writeUserData on 64 bytes P emits four segments, P[0..15] at word 0,
\* P[16..31] at word 8, P[32..47] at word 16 and P[48..63] at word 24, 16 bytes
\* each, and returns the conjunction of the four results
C8_FourSegmentsOfSixteen ==
    (WriteReached("writeUserData") /\ Len(last.arg.bytes) = RFID_USER_LENGTH) =>
        /\ Len(last.sent) = WRITE_REPEATS * RFID_NUM_USER_DATAGRAMS
        /\ \A n \in 1..RFID_NUM_USER_DATAGRAMS :
           \A i \in (WRITE_REPEATS * (n - 1) + 1)..(WRITE_REPEATS * n) :
               /\ FrameLabel(last.sent[i].frame) = USR_LABEL
               /\ FrameStart(last.sent[i].frame) = 8 * (n - 1)
               /\ FramePayload(last.sent[i].frame) =
                      SubSeq(last.arg.bytes, 16 * (n - 1) + 1, 16 * n)
        /\ last.result <=>
               \A n \in 1..RFID_NUM_USER_DATAGRAMS :
                   AcceptedInFull(WRITE_REPEATS * (n - 1) + 1, WRITE_REPEATS * n)

\* the frames of a bank, in the order they were submitted
FramesTo(label) ==
    SelectSeq(FramesOf(last.sent), LAMBDA f : FrameLabel(f) = label)

\* the last step was the erase button answered Yes, with a driver and a tag
EraseReached ==
    /\ last.op = "eraseTag"
    /\ last.arg = TRUE
    /\ m_reader
    /\ m_currentTag # NULL

\* as many frames as one bank write makes, each carrying n zero bytes
ZeroWrite(frames, n) ==
    /\ Len(frames) = WRITE_REPEATS
    /\ \A i \in 1..Len(frames) : FramePayload(frames[i]) = Fill(0, n)

\* the user frames of an erase: four segments, the first carrying the 13 zero
\* bytes and the other three nothing
ZeroUserWrite(frames) ==
    /\ Len(frames) = WRITE_REPEATS * RFID_NUM_USER_DATAGRAMS
    /\ \A i \in 1..Len(frames) :
           FramePayload(frames[i]) =
               IF i <= WRITE_REPEATS THEN Fill(0, ERASE_USR_BYTES) ELSE <<>>

\* C9 as stated: eraseTag with a tag current emits three zero-filled writes, of
\* 12 bytes to EPC, 13 bytes to USER and 8 bytes to RFU, and succeeds iff all
\* three writes succeed
C9_ThreeWritesAlways ==
    EraseReached =>
        /\ ZeroWrite(FramesTo(EPC_LABEL), ERASE_EPC_BYTES)
        /\ ZeroUserWrite(FramesTo(USR_LABEL))
        /\ ZeroWrite(FramesTo(RFU_LABEL), ERASE_RFU_BYTES)
        /\ last.result <=> AcceptedInFull(1, Len(last.sent))

\* C9 as the code has it: eraseTag with a tag current emits the zero-filled
\* EPC write of 12 bytes; the RFU write of 8 bytes follows only if the EPC write
\* succeeded, and the user write of 13 bytes (its first segment carrying them
\* all, the other three empty) only if both succeeded; it succeeds iff all
\* three writes were made and succeeded
C9_WritesUntilOneFails ==
    EraseReached =>
        LET epcOk == AcceptedInFull(1, WRITE_REPEATS)
            rfuOk == AcceptedInFull(WRITE_REPEATS + 1, 2 * WRITE_REPEATS)
            made == IF ~epcOk THEN WRITE_REPEATS
                    ELSE IF ~rfuOk THEN 2 * WRITE_REPEATS
                    ELSE WRITE_REPEATS * (2 + RFID_NUM_USER_DATAGRAMS)
        IN  /\ Len(last.sent) = made
            /\ ZeroWrite(FramesTo(EPC_LABEL), ERASE_EPC_BYTES)
            /\ FramesOf(SubSeq(last.sent, 1, WRITE_REPEATS)) = FramesTo(EPC_LABEL)
            /\ IF epcOk THEN /\ ZeroWrite(FramesTo(RFU_LABEL), ERASE_RFU_BYTES)
                             /\ FramesOf(SubSeq(last.sent, WRITE_REPEATS + 1, 2 * WRITE_REPEATS))
                                    = FramesTo(RFU_LABEL)
               ELSE FramesTo(RFU_LABEL) = <<>>
            /\ IF epcOk /\ rfuOk THEN ZeroUserWrite(FramesTo(USR_LABEL))
               ELSE FramesTo(USR_LABEL) = <<>>
            /\ last.result <=>
                   (made = WRITE_REPEATS * (2 + RFID_NUM_USER_DATAGRAMS)
                       /\ AcceptedInFull(1, Len(last.sent)))

\* an erase whose EPC write failed and was the only write made
C9_Witness ==
    /\ EraseReached
    /\ Len(last.sent) = WRITE_REPEATS
    /\ ~last.result

\* C10: with a payload p of at most 12 bytes writeEpc transmits 10 frames each
\* carrying the 12 bytes p followed by zeroes (8 bytes for writeRfu, 64 bytes
\* in all for writeUserData); a longer payload is refused and no frame is sent
C10_PaddedToBankLength ==
    LET typed == HexToBinary(last.arg.text).binary
        padded(n) == typed \o Fill(0, n - Len(typed))
        refused == last.sent = <<>> /\ ~last.result
        carried(frames) ==
            IF frames = <<>> THEN <<>>
            ELSE [n \in 1..RFID_NUM_USER_DATAGRAMS |->
                     FramePayload(frames[WRITE_REPEATS * (n - 1) + 1])]
    IN  /\ (last.op = "writeEpc" /\ HexToBinary(last.arg.text).ok
                /\ readerAccessible /\ m_currentTag # NULL) =>
               IF Len(typed) <= RFID_EPC_LENGTH
               THEN /\ Len(last.sent) = WRITE_REPEATS
                    /\ \A i \in 1..Len(last.sent) :
                           FramePayload(last.sent[i].frame) = padded(RFID_EPC_LENGTH)
               ELSE refused
        /\ (last.op = "writeRfu" /\ HexToBinary(last.arg.text).ok
                /\ readerAccessible /\ m_currentTag # NULL) =>
               IF Len(typed) <= RFID_RFU_LENGTH
               THEN /\ Len(last.sent) = WRITE_REPEATS
                    /\ \A i \in 1..Len(last.sent) :
                           FramePayload(last.sent[i].frame) = padded(RFID_RFU_LENGTH)
               ELSE refused
        /\ (last.op = "writeUserData" /\ HexToBinary(last.arg.text).ok
                /\ readerAccessible /\ m_currentTag # NULL) =>
               IF Len(typed) <= RFID_USER_LENGTH
               THEN /\ Len(last.sent) = WRITE_REPEATS * RFID_NUM_USER_DATAGRAMS
                    /\ LET c == carried(FramesOf(last.sent))
                       IN  c[1] \o c[2] \o c[3] \o c[4] = padded(RFID_USER_LENGTH)
               ELSE refused

-----------------------------------------------------------------------------
(* Properties of the tag commands and of the loaded check                  *)

C12_NotLoadedWritesRefused ==
    (/\ last.op \in {"writeEpc", "writeRfu", "writeUserData", "eraseTag"}
     /\ ~loaded)
        => /\ last.result = FALSE
           /\ \A i \in 1..Len(last.sent) : last.sent[i].accepted <= 0

\* the port is closed, or open at another rate than 9600
NotLoadedRate == baudRate # LOADED_BAUD_RATE

\* C13: a batch that arrives while the driver is not loaded is dropped (no
\* bank event, nothing sent, buffer, shitCount, selector and user cursor as
\* they were), and a tick while the driver is not loaded sends nothing
C13_NotLoadedBatchDropped ==
    [][/\ (last'.op = "onDataReceived" /\ NotLoadedRate) =>
            /\ last'.events = <<>>
            /\ last'.sent = <<>>
            /\ UNCHANGED <<driverVars, tagVars>>
       /\ (last'.op = "scan" /\ NotLoadedRate) => last'.sent = <<>>]_vars

\* a batch arrived at a driver that is not loaded and holds earlier bytes
C13_Witness ==
    /\ last.op = "onDataReceived"
    /\ last.arg # <<>>
    /\ connected
    /\ NotLoadedRate
    /\ BUFFER # <<>>

-----------------------------------------------------------------------------
(* Properties of the decoders                                              *)

\* C14: when the earliest header byte of the buffer starts a valid acknowledge
\* frame, the batch sends exactly one frame A0 03 82 00 DB, emits no bank
\* event and removes every byte from the front of the buffer to the end of
\* the acknowledge frame
C14_AckHandshake ==
    [][LET buf == BUFFER \o last'.arg
           shift == HeaderShift(buf, HEADER_RESPONSE_CODE)
       IN  (/\ IngressStep
            /\ loaded
            /\ shift + Len(AckPacket) <= Len(buf)
            /\ SubSeq(buf, shift + 1, shift + Len(AckPacket)) = AckPacket) =>
               /\ Len(last'.sent) = 1
               /\ last'.sent[1].frame =
                      <<HEADER_START_CODE, COMM_RS232, DEV_READ_SINGLE_TAG, 0, 219>>
               /\ last'.events = <<>>
               /\ BUFFER' = SubSeq(buf, shift + Len(AckPacket) + 1, Len(buf))]_vars

\* the buffer holds a response with a wrong checksum and, after it, the whole
\* of a valid EPC response
HoldsCorruptThenValid(c, e) ==
    LET held == Corrupted(c) \o e
    IN  /\ Len(BUFFER) >= Len(held)
        /\ SubSeq(BUFFER, 1, Len(held)) = held

\* C15: with a bank response whose checksum is wrong in the buffer and a valid
\* EPC response after it, the wrong one never yields a bank event, shitCount
\* is incremented only in batches no decoder matches, and the next batch
\* yields epcFound of the valid one
C15_ResyncAfterCorruptFrame ==
    [][/\ IngressStep =>
            \A i \in 1..Len(last'.events) : last'.events[i].kind = "epcFound"
       /\ (IngressStep /\ m_shitCount' # m_shitCount) => last'.result = FALSE
       /\ \A c \in RfuFrames \cup UsrFrames, e \in EpcFrames :
            (IngressStep /\ loaded /\ HoldsCorruptThenValid(c, e)) =>
                last'.events = <<EventOf(e)>>]_vars

\* C16: a valid response sent to an empty buffer and read in two or more
\* batches yields the bank event it yields when read in one, once, with the
\* batch that completes it; until then no byte of it leaves the buffer
C16_FragmentsDecodeAsWhole ==
    [][\A f \in FragmentFrames :
           (IngressStep /\ loaded /\ BUFFER \o wire = f) =>
               IF wire' = <<>>
               THEN last'.events = <<EventOf(f)>>
               ELSE /\ last'.events = <<>>
                    /\ BUFFER' \o wire' = f]_vars

\* the field of a tag a bank event carries
EventField(event) ==
    CASE event.kind = "epcFound" -> "epc"
      [] event.kind = "tidFound" -> "tid"
      [] event.kind = "rfuFound" -> "rfu"
      [] OTHER -> UsrField(event.datagram)

\* s holds elements of the pair t, in the order they have in t
InOrderOf(s, t) == s \in {<<>>, <<t[1]>>, <<t[2]>>, t}

\* C17: whatever the batches a stream of two frames is read in, the bank
\* events reported are events of its frames, each at most once and the later
\* frame's never before the earlier frame's, and an event is in the
\* aggregator's current tag when the batch that decoded it is done
C17_EventsInWireOrder ==
    [][/\ \E p \in OrderPairs : InOrderOf(reported', <<EventOf(p[1]), EventOf(p[2])>>)
       /\ (IngressStep /\ last'.events # <<>>) =>
            /\ m_currentTag' # NULL
            /\ \A i \in 1..Len(last'.events) :
                   heap'[m_currentTag'][EventField(last'.events[i])]
                       = last'.events[i].data]_vars

\* both frames of a stream were reported
C17_Witness ==
    /\ wire = <<>>
    /\ Len(reported) = 2
    /\ last.op = "onDataReceived"

-----------------------------------------------------------------------------
(* Properties of the history                                               *)

\* C18: when an open connection is closed, by the connect button or by the
\* choice of another port, the history is empty right afterwards
C18_DisconnectClearsHistory ==
    last.op \in {"disconnectDevice", "updateDevice"} => Len(m_tags) = 0

\* C19: after clearHistory, and after setReader, the history is empty and no
\* tag is current
C19_ClearedHistoryIsEmpty ==
    last.op \in {"clearHistory", "setReader"} =>
        /\ Len(m_tags) = 0
        /\ m_currentTag = NULL

\* clearHistory was called with tags in the history and one of them current
C19_Witness ==
    /\ last.op = "clearHistory"
    /\ last.arg.tagCount > 1
    /\ last.arg.currentTag # NULL

\* C20: across a bank event no field of a record that stays in the history
\* goes from non-empty to empty, and a step that is neither a bank event nor
\* a clearHistory (by itself, in setReader or in connectDevice) nor the
\* watchdog's reset leaves the history and its records as they were
C20_InformationOnlyGrows ==
    [][/\ BankEventStep =>
            LET a == DeliverAll(AggState, last'.events)
            IN  /\ Len(m_tags') = Len(a.tags)
                /\ \A i \in 1..Len(a.tags) : \A f \in FieldNames :
                       (a.tags[i] \in SeqRange(m_tags) /\ heap[a.tags[i]][f] # <<>>) =>
                           heap'[m_tags'[i]][f] # <<>>
       /\ last'.op \notin {"onDataReceived", "clearHistory", "setReader", "connectDevice",
                           "resetCurrentTag"} =>
            UNCHANGED <<m_tags, heap>>]_vars

\* a bank event updated tag data while the history holds more than one
\* record and the current tag is an object outside the history
C20_Witness ==
    /\ last.op = "onDataReceived"
    /\ last.events # <<>>
    /\ "tagUpdated" \in last.sig
    /\ Len(m_tags) > 1
    /\ m_currentTag \notin SeqRange(m_tags)

-----------------------------------------------------------------------------
(* Properties of the USER bank and of the tick                             *)

\* a step in which a whole frame was read into a buffer that holds no header
DeliveryStep(f) ==
    /\ last'.op = "onDataReceived"
    /\ last'.arg = f
    /\ m_reader
    /\ loaded
    /\ \A i \in 1..Len(BUFFER) :
           BUFFER[i] \notin {HEADER_RESPONSE_CODE, HEADER_RESULT_CODE}

\* C21: a decoded USER frame yields usrFound(payload, d) exactly when
\* d = wordStart / 8, wordStart being the frame's address byte in 0..255, is
\* below RFID_NUM_USER_DATAGRAMS; for any other wordStart there is no event
\* and no tag record changes
C21_UserDatagramInRange ==
    [][\A f \in UserAddressFrames :
           DeliveryStep(f) =>
               IF FrameStart(f) \div 8 < RFID_NUM_USER_DATAGRAMS
               THEN last'.events = <<BankEvent("usrFound", FramePayload(f),
                                                FrameStart(f) \div 8)>>
               ELSE last'.events = <<>> /\ UNCHANGED tagVars]_vars

\* the driver is loaded and no tag is current
Stuck == readerAccessible /\ m_currentTag = NULL /\ last.op # "setReader"

\* the last batch read matched no decoder
Unmatched == last.op = "onDataReceived" /\ last.arg # <<>> /\ ~last.result

\* the last tick sent the frame
TickSent(frame) == last.op = "scan" /\ FramesOf(last.sent) = <<frame>>

TickStep ==
    /\ last'.op = "scan"
    /\ readerAccessible
    /\ UNCHANGED <<timeVars, transportVars, m_reader>>

BankOrder == <<TID_LABEL, RFU_LABEL, USR_LABEL, EPC_LABEL>>
BankAfter(label) ==
    LET i == CHOOSE j \in 1..4 : BankOrder[j] = label
    IN  BankOrder[(i % 4) + 1]
IsBankRead(frame) == frame[1] = HEADER_START_CODE /\ frame[3] = DEV_READ_TAG_DATA

\* the tick recorded in l asked for exactly one bank, with a tag current
AskedOneBank(l) ==
    /\ l.op = "scan"
    /\ l.result
    /\ Len(l.sent) = 1
    /\ IsBankRead(l.sent[1].frame)

\* C25: a tick with a tag current sends exactly one bank read; on successive
\* such ticks the banks are TID, RFU, USER, EPC, in that order and again; a
\* tick with no current tag sends no bank read and leaves the selector at
\* the first bank, TID, which is what a tick asks for at that selector
C25_BanksInCycle ==
    [][TickStep =>
          IF m_currentTag = NULL
          THEN /\ \A i \in 1..Len(last'.sent) : ~IsBankRead(last'.sent[i].frame)
               /\ m_selector' = 0
          ELSE /\ AskedOneBank(last')
               /\ m_selector = 0 => FrameLabel(last'.sent[1].frame) = TID_LABEL
               /\ AskedOneBank(last) =>
                     FrameLabel(last'.sent[1].frame)
                         = BankAfter(FrameLabel(last.sent[1].frame))]_vars
C25_Witness ==
    /\ AskedOneBank(last)
    /\ FrameLabel(last.sent[1].frame) = EPC_LABEL
    /\ m_currentTag # NULL
    /\ m_selector = 0

\* C26: in every state the stored m_userStartAddress is one of 0, 8, 16, 24
C26_UserCursorInRange == m_userStartAddress \in {0, 8, 16, 24}

\* C26 as amended: in every state the stored m_userStartAddress is one of
\* 0, 8, 16, 24, 32, and the address the next USER request carries is one of
\* 0, 8, 16, 24 (32 is stored after the request at 24, and the next request
\* resets it before it is used)
C26_UserCursorResetAtRequest ==
    /\ m_userStartAddress \in {0, 8, 16, 24, 32}
    /\ UsrRequestAddress \in {0, 8, 16, 24}
C26_Witness ==
    /\ m_userStartAddress = 32
    /\ TickSent(ReadPacket(USR_LABEL, 24, 8))

\* a step of the tick that asked for the USER bank
UserTickStep ==
    /\ TickStep
    /\ AskedOneBank(last')
    /\ FrameLabel(last'.sent[1].frame) = USR_LABEL

\* C27: every USER read request carries a word address in {0, 8, 16, 24} and
\* the word count 8; the request after one at address a carries a + 8, and 0
\* after 24, no step but a USER request (or a new driver) changing the
\* address of the next one; with one USER request in every four ticks of a
\* current tag (C25) each datagram is asked for once in 16 ticks
C27_UserAddressesInCycle ==
    [][IF UserTickStep
       THEN LET frame == last'.sent[1].frame
            IN  /\ FrameStart(frame) \in {0, 8, 16, 24}
                /\ frame[7] = 8
                /\ UsrRequestAddress' = (FrameStart(frame) + 8) % 32
       ELSE last'.op # "setReader" => UsrRequestAddress' = UsrRequestAddress]_vars
C27_Witness ==
    /\ TickSent(ReadPacket(USR_LABEL, 24, 8))
    /\ m_currentTag # NULL
    /\ UsrRequestAddress = 0

\* the records of the history, and the current tag if there is one
Records == SeqRange(m_tags) \cup (IF m_currentTag = NULL THEN {} ELSE {m_currentTag})

\* C24: every record of the history, and the current tag if any, has a
\* non-empty tid or a non-empty epc: an RFU or USER event that arrives while
\* no tag is current creates no record
C24_RecordsAreIdentified ==
    \A t \in Records : heap[t].tid # <<>> \/ heap[t].epc # <<>>

-----------------------------------------------------------------------------
(* Properties of the chain of decoders                                     *)

\* the decoder that takes a frame, by the order in which they are tried
FirstDecoder(f) ==
    CASE f = AckPacket -> "readAckPacket"
      [] Len(f) < 6 -> "readStdResponse"
      [] f[3] = DEV_READ_SINGLE_TAG -> "readEpcPacketFromScan"
      [] FrameLabel(f) = EPC_LABEL -> "readEpcPacket"
      [] FrameLabel(f) = TID_LABEL -> "readTagIdPacket"
      [] FrameLabel(f) = RFU_LABEL -> "readRfuPacket"
      [] OTHER -> "readUsrPacket"

\* C29: a batch is taken by the first decoder, in the order Ack, single-tag
\* EPC, bank EPC, TID, RFU, USER, stray response, stray result, that
\* succeeds: the batch takes at most one frame out of the buffer, emits at
\* most one bank event or one answer to an acknowledge, and counts as
\* unmatched only if no decoder succeeded
C29_FirstDecoderTakesOneFrame ==
    [][\A f \in PriorityFrames, g \in TrailingFrames :
           DeliveryStep(f \o g) =>
               LET consumed == Len(BUFFER) + Len(f \o g) - Len(BUFFER')
               IN  /\ Len(last'.events) + Len(last'.sent) <= 1
                   /\ consumed <= Len(BUFFER) + Len(f)
                   /\ last'.result => last'.by = FirstDecoder(f)
                   /\ m_shitCount' # m_shitCount =>
                         ~last'.result /\ last'.events = <<>> /\ last'.sent = <<>>]_vars

\* the frame at the earliest header of buf has not arrived in full: its size
\* byte is missing, or it is the response to a read and fewer bytes are there
\* than header, size byte and the bytes the size byte counts
IncompleteFrame(buf) ==
    LET shift == HeaderShift(buf, HEADER_RESPONSE_CODE)
    IN  /\ shift < Len(buf)
        /\ \/ Len(buf) < shift + 2
           \/ buf[shift + 2] >= 6 /\ Len(buf) < shift + buf[shift + 2] + 2

\* q ends with the bytes p
EndsWith(q, p) ==
    /\ Len(q) >= Len(p)
    /\ SubSeq(q, Len(q) - Len(p) + 1, Len(q)) = p

\* C30: when the frame at the earliest header of the buffer is not
\* completely received, the batch consumes nothing of it: no event is
\* emitted and every byte from the header on stays in the buffer
C30_IncompleteFrameIsKept ==
    [][(/\ wire # <<>>
        /\ last'.op = "onDataReceived"
        /\ wire = last'.arg \o wire'
        /\ m_reader
        /\ loaded
        /\ IncompleteFrame(BUFFER \o last'.arg)) =>
           LET appended == BUFFER \o last'.arg
               shift == HeaderShift(appended, HEADER_RESPONSE_CODE)
           IN  /\ last'.events = <<>>
               /\ EndsWith(BUFFER', SubSeq(appended, shift + 1, Len(appended)))]_vars

\* what an encoded frame was made from: bank, word address and payload
EncodedEvent(f) ==
    LET data == SubSeq(f, 8, Len(f) - 1)
    IN  CASE FrameLabel(f) = EPC_LABEL -> BankEvent("epcFound", data, 0)
          [] FrameLabel(f) = TID_LABEL -> BankEvent("tidFound", data, 0)
          [] FrameLabel(f) = RFU_LABEL -> BankEvent("rfuFound", data, 0)
          [] OTHER -> BankEvent("usrFound", data, FrameStart(f) \div 8)

\* C23: the bytes of a frame made by the driver's encoders (a bank read or a
\* bank write), fed to the decoders, yield the bank, the word address and the
\* payload the frame was made from
C23_EncodedFrameDecodes ==
    [][\A f \in EncodedFrames :
           DeliveryStep(f) /\ BUFFER = <<>> =>
               /\ last'.result
               /\ last'.events = <<EncodedEvent(f)>>]_vars

-----------------------------------------------------------------------------
(* Properties of the history-merge                                         *)

\* the history entry H and the record R are the same tag: the same epc or the
\* same tid, and not an empty one
SameTag(H, R) ==
    \/ H.epc = R.epc /\ R.epc # <<>>
    \/ H.tid = R.tid /\ R.tid # <<>>

\* a step in which one bank event reached the aggregator and was put into a
\* new record: no tag was current, or the current tag holds other bytes in
\* the event's field
NewRecordStep ==
    /\ last'.op = "onDataReceived"
    /\ m_reader
    /\ Len(last'.events) = 1
    /\ \/ m_currentTag = NULL
       \/ heap[m_currentTag][EventField(last'.events[1])]
              \notin {<<>>, last'.events[1].data}

\* the record a bank event is put into
NewRecord(event) == [EmptyTag EXCEPT ![EventField(event)] = event.data]

\* C31: a record R is merged into a history entry H only if H and R have the
\* same non-empty epc or the same non-empty tid: the entries that have not
\* stay as they are, and when no entry has, R is appended as a new entry
C31_MergeOnlyIntoSameTag ==
    [][NewRecordStep =>
          LET R == NewRecord(last'.events[1])
              n == Len(m_tags)
          IN  /\ \A i \in 1..n :
                    ~SameTag(heap[m_tags[i]], R) =>
                        /\ i <= Len(m_tags')
                        /\ heap'[m_tags'[i]] = heap[m_tags[i]]
              /\ (\A i \in 1..n : ~SameTag(heap[m_tags[i]], R)) =>
                    /\ Len(m_tags') = n + 1
                    /\ heap'[m_tags'[n + 1]] = R]_vars

-----------------------------------------------------------------------------
(* Properties of the count of unmatched batches                            *)

\* a step in which a loaded driver read a batch
BatchStep ==
    /\ last'.op = "onDataReceived"
    /\ last'.arg # <<>>
    /\ m_reader
    /\ loaded
    /\ UNCHANGED <<transportVars, m_reader>>

\* C32: m_shitCount is the number of the most recent consecutive batches from
\* which no packet was extracted: a batch no decoder matches adds one, and a
\* batch in which a decoder succeeds resets it to 0
C32_CountsConsecutiveFailures ==
    [][BatchStep =>
          m_shitCount' = IF last'.result THEN 0 ELSE m_shitCount + 1]_vars

-----------------------------------------------------------------------------
(* Properties of the reads and removals of the decoders                    *)

\* C33: whatever the buffer and the batch, every index of the buffer a
\* decoder reads is below the length of the buffer
C33_ReadsInsideBuffer ==
    [][BatchStep =>
          \A i \in IndicesRead(BUFFER \o last'.arg) : i < Len(BUFFER \o last'.arg)]_vars

\* C34: whenever a decoder reports success in a batch, the buffer is
\* strictly shorter afterwards than it was when decoding started, whatever
\* the length byte
C34_SuccessShortensBuffer ==
    [][(BatchStep /\ last'.result) =>
          Len(BUFFER') < Len(BUFFER \o last'.arg)]_vars

-----------------------------------------------------------------------------
(* Properties of the current tag and of the deduplication                  *)

\* C35: in every state the current tag, when there is one, is one of the
\* records of the history
C35_CurrentTagInHistory ==
    m_currentTag # NULL => m_currentTag \in SeqRange(m_tags)


\* a step of one driver instance on one connection that sends no STOP_SEARCH
NoStopStep ==
    /\ UNCHANGED <<transportVars, m_reader>>
    /\ last'.op # "setReader"
    /\ ~(last'.op = "scan" /\ FramesOf(last'.sent) = <<StopSearchPacket>>)

\* C36: m_shitCount never wraps around: once it is above 10 it stays above 10
\* until a STOP_SEARCH is sent, however many unmatched batches arrive in
\* between, more than 255 of them while a tag is current included
C36_CountNeverWraps ==
    [][(m_shitCount > SHIT_THRESHOLD /\ NoStopStep) => m_shitCount' > SHIT_THRESHOLD]_vars

(* Properties of the writes and the erase                                  *)

\* the last step was a write of a bank or an erase the user asked for
WriteOrErase ==
    \/ last.op \in {"writeEpc", "writeRfu", "writeUserData"} /\ last.arg.call
    \/ last.op = "eraseTag" /\ last.arg = TRUE

\* C37: with no current tag, writeEpc, writeRfu, writeUserData and eraseTag
\* fail and hand no frame to the transport
C37_NoTagNoWrite ==
    (WriteOrErase /\ m_currentTag = NULL) => (~last.result /\ last.sent = <<>>)
C37_Witness ==
    /\ last.op = "eraseTag"
    /\ last.arg = TRUE
    /\ readerAccessible
    /\ m_currentTag = NULL

\* the place of a bank in the order in which the erase writes the banks
EraseRank(label) ==
    CASE label = EPC_LABEL -> 1
      [] label = RFU_LABEL -> 2
      [] label = USR_LABEL -> 3
      [] OTHER -> 0

\* C38: eraseTag transmits its writes in the order EPC, RFU, USER and stops at
\* the first bank whose write fails: no RFU or USER frame after a failed EPC
\* write, no USER frame after a failed RFU write
C38_EraseStopsAtFirstFailure ==
    EraseReached =>
        LET frames == FramesOf(last.sent)
            epcOk == AcceptedInFull(1, WRITE_REPEATS)
            rfuOk == AcceptedInFull(WRITE_REPEATS + 1, 2 * WRITE_REPEATS)
        IN  /\ Len(frames) >= WRITE_REPEATS
            /\ \A i \in 1..Len(frames) : EraseRank(FrameLabel(frames[i])) > 0
            /\ \A i, j \in 1..Len(frames) :
                   i < j => EraseRank(FrameLabel(frames[i])) <= EraseRank(FrameLabel(frames[j]))
            /\ ~epcOk => FramesTo(RFU_LABEL) = <<>> /\ FramesTo(USR_LABEL) = <<>>
            /\ (epcOk /\ ~rfuOk) => FramesTo(RFU_LABEL) # <<>> /\ FramesTo(USR_LABEL) = <<>>
            /\ (epcOk /\ rfuOk) => FramesTo(USR_LABEL) # <<>>

\* an erase whose EPC write succeeded and whose RFU write failed
C38_Witness ==
    /\ EraseReached
    /\ AcceptedInFull(1, WRITE_REPEATS)
    /\ Len(last.sent) = 2 * WRITE_REPEATS
    /\ ~last.result

(* Properties of the buffer across connections and driver instances       *)

\* C39: no byte buffered before a disconnect or a change of driver is part of
\* what is decoded afterwards: the buffer is empty when a connection is
\* established and when a new driver instance is created
C39_BufferEmptyAtStart ==
    (last.op = "setReader" \/ (last.op = "connectDevice" /\ last.result)) => BUFFER = <<>>

(* Properties of the deduplication                                         *)

\* every non-empty field of the record H has the same value in the record S
Covers(S, H) == \A f \in FieldNames : H[f] # <<>> => S[f] = H[f]

\* a bank event after which the history holds fewer records than before
SweepStep ==
    /\ last'.op = "onDataReceived"
    /\ m_reader
    /\ Len(last'.events) = 1
    /\ Len(m_tags') < Len(m_tags)

\* C40: the deduplication loses no data: when a bank event removes records
\* from the history, every non-empty field of a removed record that had a tid
\* is held afterwards by a history record with that tid (whichever of the
\* records are taken to be the removed ones)
C40_SweepLosesNoData ==
    [][SweepStep =>
          \E D \in SUBSET (1..Len(m_tags)) :
              /\ Cardinality(D) = Len(m_tags) - Len(m_tags')
              /\ \A i \in D :
                     heap[m_tags[i]].tid # <<>> =>
                         \E k \in 1..Len(m_tags') :
                             /\ heap'[m_tags'[k]].tid = heap[m_tags[i]].tid
                             /\ Covers(heap'[m_tags'[k]], heap[m_tags[i]])]_vars
=============================================================================
